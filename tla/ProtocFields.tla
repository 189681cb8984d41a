----------------------------- MODULE ProtocFields -----------------------------
(***************************************************************************)
(* What the plugin of protoc writes for each file of a request             *)
(* (tools/src/zpp-protoc-plugin.cpp): the types of a message's fields,     *)
(* their numbers, its comparison operator, and the ranges of enumerations. *)
(* ProtocPlugin has the order of the messages of one file; here a file has *)
(* one message and some enumerations.  A name is a sequence of words, a    *)
(* path the names of a message and those it is nested in.                  *)
(***************************************************************************)
EXTENDS Integers, Sequences, FiniteSets, SequencesExt

CONSTANTS
  Request, \* the requests: sequences of files
  Keyword  \* the words C++ keeps for itself

VARIABLES
  request,  \* the files to generate
  epilogue, \* the ranges of enumerations, as the generator has collected them
  headers,  \* what was generated for each file
  failed    \* the response has an error

vars == <<request, epilogue, headers, failed>>

Init ==
  /\ request \in Request
  /\ epilogue = <<>>
  /\ headers = <<>>
  /\ failed = FALSE

-----------------------------------------------------------------------------
(* Names.                                                                  *)

reserve_keyword(w) == IF w \in Keyword THEN <<w, "_">> ELSE <<w>>

(* Only what is not nested is known by the name it is declared by.         *)
ClassName(path) ==
  reserve_keyword(Head(path)) \o Tail(path)

(* Every part on its own.                                                  *)
full_name_to_cpp_name(path) ==
  FoldLeft(LAMBDA name, w : name \o reserve_keyword(w), <<>>, path)

Name(m, path) ==
  IF Front(path) = m THEN reserve_keyword(Last(path)) ELSE ClassName(path)

-----------------------------------------------------------------------------
(* Types of fields.                                                        *)

Scalar ==
  [int32 |-> "vint32_t", int64 |-> "vint64_t", uint32 |-> "vuint32_t", uint64 |-> "vuint64_t",
   sint32 |-> "vsint32_t", sint64 |-> "vsint64_t", fixed32 |-> "uint32_t",
   fixed64 |-> "uint64_t", sfixed32 |-> "int32_t", sfixed64 |-> "int64_t", float |-> "float",
   double |-> "double", bool |-> "bool", string |-> "string", bytes |-> "vector<char>"]

Packable(f) == f.type \in (DOMAIN Scalar \ {"string", "bytes"}) \cup {"enum"}

(* A message that contains m, or is m.                                     *)
Recursive(m, f) == f.type = "message" /\ IsPrefix(f.path, m)
Pointer(m, f) == Recursive(m, f) /\ ~f.repeated

Plain(m, f) ==
  IF f.type \in DOMAIN Scalar THEN <<Scalar[f.type]>>
  ELSE IF f.type = "map" THEN <<"map", <<Scalar[f.key]>>, <<Scalar[f.mapped]>>>>
  ELSE <<"named", Name(m, f.path)>>

field_type_name(m, f) ==
  LET core == IF f.zpp_type # "" THEN <<f.zpp_type>>
              ELSE IF Pointer(m, f) THEN <<"unique_ptr", Plain(m, f)>>
              ELSE Plain(m, f)
      can_be_optional == f.zpp_type # "" \/ ~(f.type = "map" \/ Pointer(m, f))
  IN IF f.repeated THEN <<"vector", core>>
     ELSE IF can_be_optional /\ f.zpp_optional THEN <<"optional", core>>
     ELSE core

(* "unpacked repeated field is not supported yet."                         *)
Unpacked(f) == f.repeated /\ Packable(f) /\ ~f.packed

-----------------------------------------------------------------------------

(* The fields whose number is not their place.                             *)
pb_map(fields) ==
  {<<n, fields[n].number>> : n \in {k \in DOMAIN fields : k # fields[k].number}}

UniquePointers(m, fields) ==
  SetToSortSeq({n \in DOMAIN fields : field_type_name(m, fields[n])[1] = "unique_ptr"}, <)

(* The pointer awaited after field n.                                      *)
NextPointer(pointers, itr, n) ==
  IF itr > Len(pointers) \/ n < pointers[itr] THEN itr ELSE itr + 1

(* How operator== compares each field: as it is, or what it points to too  *)
(* (the operator that follows pointers is written without a return).       *)
Comparison(m, fields) ==
  LET pointers == UniquePointers(m, fields)
      itr[n \in 0..Len(fields)] == IF n = 0 THEN 1 ELSE NextPointer(pointers, itr[n - 1], n)
  IN [n \in DOMAIN fields |->
        IF itr[n - 1] > Len(pointers) \/ n < pointers[itr[n - 1]] THEN "value" ELSE "pointee"]

Struct(m, fields) ==
  [types |-> [n \in DOMAIN fields |-> field_type_name(m, fields[n])],
   pb_map |-> pb_map(fields),
   comparison |-> Comparison(m, fields)]

-----------------------------------------------------------------------------
(* Enumerations.                                                           *)

Least(S) == CHOOSE x \in S : \A y \in S : x <= y
Greatest(S) == CHOOSE x \in S : \A y \in S : y <= x

(* What magic_enum looks at, and the widest range it accepts.              *)
DefaultRange == -128..128
UINT16_MAX == 65535

OutOfRange(e) ==
  \/ Least(e.values) < -128 \/ Greatest(e.values) > 128
  \/ Greatest(e.values) - Least(e.values) > UINT16_MAX

enum_range(e) ==
  [of |-> full_name_to_cpp_name(e.path), min |-> Least(e.values), max |-> Greatest(e.values)]

(* The enumerations of a file, each with its range if it needs one.        *)
generate_enum(enums) ==
  LET wide == SelectSeq(enums, OutOfRange)
  IN [n \in DOMAIN wide |-> enum_range(wide[n])]

-----------------------------------------------------------------------------
Next == Len(headers) + 1

(* "only syntax 3 is supported": an empty file is left in the response.    *)
RefuseSyntax ==
  /\ headers' = Append(headers, <<>>)
  /\ failed' = TRUE
  /\ UNCHANGED <<request, epilogue>>

(* The epilogue is that of all files so far.  After an error no message is *)
(* generated any more.                                                     *)
WriteHeader(file) ==
  LET ranges == epilogue \o generate_enum(file.enums) IN
  /\ epilogue' = ranges
  /\ headers' = Append(headers, [struct |-> IF failed THEN <<>>
                                            ELSE <<Struct(file.message, file.fields)>>,
                                 ranges |-> ranges])
  /\ failed' = (failed \/ \E n \in DOMAIN file.fields : Unpacked(file.fields[n]))
  /\ UNCHANGED request

generate_file ==
  /\ Next \in DOMAIN request
  /\ IF request[Next].proto3 THEN WriteHeader(request[Next]) ELSE RefuseSyntax

Spec == Init /\ [][generate_file]_vars

-----------------------------------------------------------------------------
(* Properties.                                                             *)

(* The type a field has without its label: vector, optional, pointer.      *)
Core(type) == IF type[1] \in {"vector", "optional", "unique_ptr"} THEN type[2] ELSE type

(* The number that a field goes on the wire with.                          *)
WireNumber(s, n) ==
  LET mapped == {p \in s.pb_map : p[1] = n}
  IN IF mapped = {} THEN n ELSE (CHOOSE p \in mapped : TRUE)[2]

(* A name that C++ keeps, inside of a message, is declared with another    *)
(* spelling than it is used with.                                          *)
Misspelt(path) == \E n \in 2..Len(path) : path[n] \in Keyword

(* Each field goes on the wire under its own number, as many times as it   *)
(* may occur and never inside of itself, and values of two types of the    *)
(* language are never taken for each other; a field names the type that is *)
(* declared, unless its name is misspelt (maps are left out: they become a *)
(* vector of maps).                                                        *)
FieldsAreFaithful(file, s) ==
  \A n \in DOMAIN file.fields :
    LET f == file.fields[n]
        type == s.types[n]
    IN /\ WireNumber(s, n) = f.number
       /\ type[1] = "vector" <=> f.repeated
       /\ f.zpp_type = "" /\ f.type # "map" =>
            /\ f.type \in DOMAIN Scalar =>
                 \A t \in DOMAIN Scalar : Core(type) = <<Scalar[t]>> => t = f.type
            /\ f.type \notin DOMAIN Scalar =>
                 \/ Core(type)[2] = full_name_to_cpp_name(f.path)
                 \/ IF Front(f.path) = file.message
                    THEN Core(type)[2] = reserve_keyword(Last(f.path)) ELSE Misspelt(f.path)
            /\ Recursive(file.message, f) => type[1] \in {"vector", "unique_ptr"}

(* The operator follows the pointers of a message and nothing else.        *)
ComparesPointees(s) ==
  \A n \in DOMAIN s.types : s.comparison[n] = "pointee" <=> s.types[n][1] = "unique_ptr"

(* magic_enum knows every value of an enumeration, by the header of the    *)
(* file that declares it alone.                                            *)
ValuesAreVisible(e, ranges) ==
  LET own == {n \in DOMAIN ranges : ranges[n].of = full_name_to_cpp_name(e.path)}
      visible == IF own = {} THEN DefaultRange
                 ELSE UNION {ranges[n].min..ranges[n].max : n \in own}
  IN e.values \subseteq visible

(* What protoc accepts, in a request for any number of files               *)
(* (zpp-protoc-plugin.cpp:199-504).                                        *)
HeadersAreFaithful ==
  ~failed =>
    \A k \in DOMAIN headers :
      /\ FieldsAreFaithful(request[k], headers[k].struct[1])
      /\ ComparesPointees(headers[k].struct[1])
      /\ \A n \in DOMAIN request[k].enums :
           ValuesAreVisible(request[k].enums[n], headers[k].ranges)
=============================================================================
