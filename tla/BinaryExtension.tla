--------------------------- MODULE BinaryExtension ---------------------------
(***************************************************************************)
(* eosio::binary_extension<T> (core/eosio/binary_extension.hpp): a value   *)
(* that may be missing at the end of serialized data.  A flag says whether *)
(* there is a value and the object lives in raw storage, so every member   *)
(* has to keep the two together by hand.                                   *)
(***************************************************************************)
EXTENDS Integers, Sequences

CONSTANTS
  Extension,  \* the objects of type binary_extension<T>
  Value,      \* the values of T
  Default,    \* T(), one of them
  Moved,      \* a T that was moved from
  Raw,        \* storage in which no T lives, no value
  MaxStream   \* bound: the values in the stream

VARIABLES
  exists,     \* the extensions constructed and not yet destroyed
  has_value,  \* _has_value of each
  data,       \* _data of each
  stream,     \* the serialized values not read yet
  answer,     \* what the last read returned, and what it should have
  meant,      \* history: the value each should hold, or Raw
  sent,       \* history: the values the stream should hold
  emptied     \* history: the extensions that are empty since a move

vars == <<exists, has_value, data, stream, answer, meant, sent, emptied>>

Init ==
  /\ exists = {}
  /\ has_value = [e \in Extension |-> FALSE]
  /\ data = [e \in Extension |-> Raw]
  /\ stream = <<>> /\ answer = <<Raw, Raw>>
  /\ meant = [e \in Extension |-> Raw]
  /\ sent = <<>> /\ emptied = {}

-----------------------------------------------------------------------------
(* Members of the extensions, and what becomes of them.                    *)

Members == [flag |-> has_value, data |-> data]

(* ::new (&_data) T(v), followed by _has_value = b                         *)
Holds(s, e, v, b) ==
  [flag |-> [s.flag EXCEPT ![e] = b], data |-> [s.data EXCEPT ![e] = v]]

reset(s, e) == IF s.flag[e] THEN Holds(s, e, Raw, FALSE) ELSE s

emplace(s, e, v) == Holds(reset(s, e), e, v, TRUE)

(* Assigned to itself, an extension is empty before it looks at the other. *)
CopyAssigned(s, e, o) ==
  LET fresh == reset(s, e)
  IN IF fresh.flag[o] THEN Holds(fresh, e, fresh.data[o], TRUE) ELSE fresh

(* *other is an lvalue here: the value is copied, and the object of the    *)
(* other lives on without its flag.                                        *)
MoveAssigned(s, e, o) ==
  LET fresh == reset(s, e)
  IN IF fresh.flag[o]
     THEN Holds(Holds(fresh, e, fresh.data[o], TRUE), o, fresh.data[o], FALSE)
     ELSE fresh

Become(s) == has_value' = s.flag /\ data' = s.data

(* Now e should hold v, and an extension that was moved from nothing.      *)
Means(e, v, moved) ==
  /\ meant' = [x \in Extension |-> IF x = e THEN v ELSE IF x \in moved THEN Raw ELSE meant[x]]
  /\ emptied' = (emptied \cup moved) \ (IF v = Raw THEN {} ELSE {e})
  /\ answer' = <<Raw, Raw>>

-----------------------------------------------------------------------------
Appears(e) == e \notin exists /\ exists' = exists \cup {e}
Stays(S) == S \subseteq exists /\ UNCHANGED exists
StreamStays == UNCHANGED <<stream, sent>>

Construct(e) ==
  /\ Appears(e) /\ StreamStays
  /\ Become(Members)
  /\ Means(e, Raw, {})

ConstructFrom(e, v) ==
  /\ Appears(e) /\ StreamStays
  /\ Become(Holds(Members, e, v, TRUE))
  /\ Means(e, v, {})

CopyConstruct(e, o) ==
  /\ Appears(e) /\ o \in exists /\ StreamStays
  /\ Become(IF has_value[o] THEN Holds(Members, e, data[o], TRUE) ELSE Members)
  /\ Means(e, meant[o], {})

(* Mutant: the flag of the other is left.                                  *)
MovedKeepsFlag(s, e, o) == Holds(Holds(s, e, s.data[o], TRUE), o, Moved, TRUE)

(* *std::move(other) is an rvalue: the object is moved from.               *)
MovedFrom(s, e, o) == Holds(Holds(s, e, s.data[o], TRUE), o, Moved, FALSE)

MoveConstruct(e, o) ==
  /\ Appears(e) /\ o \in exists /\ StreamStays
  /\ Become(IF has_value[o] THEN MovedFrom(Members, e, o) ELSE Members)
  /\ Means(e, meant[o], {o})

(* The storage goes with the extension.                                    *)
Destroy(e) ==
  /\ e \in exists /\ exists' = exists \ {e} /\ StreamStays
  /\ Become(Holds(reset(Members, e), e, Raw, FALSE))
  /\ meant' = [meant EXCEPT ![e] = Raw]
  /\ emptied' = emptied \ {e}
  /\ answer' = <<Raw, Raw>>

CopyAssign(e, o) ==
  /\ Stays({e, o}) /\ StreamStays
  /\ Become(CopyAssigned(Members, e, o))
  /\ Means(e, IF e = o THEN Raw ELSE meant[o], {})

MoveAssign(e, o) ==
  /\ Stays({e, o}) /\ StreamStays
  /\ Become(MoveAssigned(Members, e, o))
  /\ Means(e, IF e = o THEN Raw ELSE meant[o], {o} \ {e})

Emplace(e, v) ==
  /\ Stays({e}) /\ StreamStays
  /\ Become(emplace(Members, e, v))
  /\ Means(e, v, {})

Reset(e) ==
  /\ Stays({e}) /\ StreamStays
  /\ Become(reset(Members, e))
  /\ Means(e, Raw, {})

-----------------------------------------------------------------------------
(* Reads.  value fails a check if there is none: the answer is then Raw.   *)

value(e) == IF has_value[e] THEN data[e] ELSE Raw
value_or(e, v) == IF has_value[e] THEN data[e] ELSE v
MeantOr(e, v) == IF meant[e] = Raw THEN v ELSE meant[e]

Answers(got, should) ==
  /\ answer' = <<got, should>>
  /\ UNCHANGED <<exists, has_value, data, stream, meant, sent, emptied>>

Read(e) == e \in exists /\ Answers(value(e), meant[e])
ReadOr(e, v) == e \in exists /\ Answers(value_or(e, v), MeantOr(e, v))

(* value_or()&&, whose reader moves the value out.  Of an empty extension  *)
(* it returns a reference to a T() that is already gone: any value.        *)
Take(e) ==
  /\ Stays({e}) /\ StreamStays
  /\ IF has_value[e]
     THEN /\ Become(Holds(Members, e, Moved, FALSE))
          /\ emptied' = emptied \cup {e}
          /\ answer' = <<data[e], meant[e]>>
     ELSE /\ Become(Members) /\ UNCHANGED emptied
          /\ \E v \in Value : answer' = <<v, v>>
  /\ meant' = [meant EXCEPT ![e] = Raw]

(* An empty extension is written as T().                                   *)
Write(e) ==
  /\ Stays({e}) /\ Len(stream) < MaxStream
  /\ stream' = Append(stream, value_or(e, Default))
  /\ sent' = Append(sent, MeantOr(e, Default))
  /\ answer' = <<Raw, Raw>>
  /\ UNCHANGED <<has_value, data, meant, emptied>>

Unpacked(s, e, v) == emplace(s, e, v)

(* At the end of the stream the extension keeps the value it has.          *)
Unpack(e) ==
  /\ Stays({e})
  /\ IF stream # <<>>
     THEN /\ Become(Unpacked(Members, e, Head(stream)))
          /\ Means(e, Head(sent), {})
          /\ stream' = Tail(stream) /\ sent' = Tail(sent)
     ELSE /\ Become(Members) /\ StreamStays
          /\ Means(e, meant[e], {})

Next ==
  \E e \in Extension :
     \/ Construct(e) \/ Destroy(e) \/ Reset(e) \/ Read(e) \/ Take(e)
     \/ Write(e) \/ Unpack(e)
     \/ \E v \in Value : ConstructFrom(e, v) \/ Emplace(e, v) \/ ReadOr(e, v)
     \/ \E o \in Extension :
          \/ CopyConstruct(e, o) \/ MoveConstruct(e, o)
          \/ CopyAssign(e, o) \/ MoveAssign(e, o)

Spec == Init /\ [][Next]_vars

-----------------------------------------------------------------------------
(* Through any sequence of constructions, copies, moves, reads and         *)
(* serializations an extension holds the value it should, a live object    *)
(* whenever its flag is set, and nobody reads a T that was moved from; an  *)
(* object that lives on with its flag cleared, and is never destroyed, is  *)
(* one that was moved from.  An extension assigned to itself should be     *)
(* taken as empty (binary_extension.hpp:24-168, 198-221).                  *)
ExtensionsHoldValues ==
  /\ \A e \in Extension :
       /\ IF has_value[e] THEN data[e] = meant[e] ELSE meant[e] = Raw
       /\ has_value[e] => data[e] \in Value
       /\ ~has_value[e] /\ data[e] # Raw => e \in emptied
  /\ answer[1] = answer[2]
  /\ stream = sent
=============================================================================
