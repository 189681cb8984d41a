----------------------------- MODULE MapElements -----------------------------
(***************************************************************************)
(* The values of eosio::kv::map (contracts/eosio/map.hpp): rows written by *)
(* the constructor, by raw_write and through the wrappers that operator[]  *)
(* and at return, and the buffers that all of them are packed in.  KvMap   *)
(* has the iterators and the order of the keys.                            *)
(***************************************************************************)
EXTENDS Integers, Sequences

CONSTANTS
  MapKey,    \* keys of rows, without their prefix
  Value,     \* values of rows: sequences of words
  RawBytes,  \* what raw_write may be given
  Payer,     \* accounts to bill
  Self,      \* the account of the contract
  Other,     \* another account, which has rows of its own
  OtherBytes, \* what its row has
  Elements,  \* initializer lists of maps
  Wrapper,   \* variables that hold a writable_wrapper
  MaxStatic, \* the size of the static buffer (512)
  MaxCalls   \* bound: calls in a behaviour

VARIABLES
  index_name, \* the name of the index that the type of the maps is given
  rows,       \* the rows of both accounts, by prefix and key
  buffers,    \* static_data and dynamic_data
  wrappers,   \* what the variables hold, None before
  meant,      \* what was last written to each key of Self, and how
  aborted,    \* the transaction has failed
  calls

vars == <<index_name, rows, buffers, wrappers, meant, aborted, calls>>

None == <<>>
DefaultIndex == "map.index"
Owner == {Self, Other}
FullKey == {DefaultIndex, "own"} \X MapKey
full_key(k) == <<index_name, k>>

(* The elements of a map are of the type map<TableName, K, V>, which has   *)
(* the default index.                                                      *)
element_key(k) == <<DefaultIndex, k>>

pack(v) == <<Len(v)>> \o v
Unpackable(bytes) == bytes # <<>> /\ Head(bytes) < Len(bytes)
unpack(bytes) == SubSeq(bytes, 2, 1 + Head(bytes))

Row(bytes, payer) == [bytes |-> bytes, payer |-> payer]
Nobody == "nobody"
Nothing == Row(<<>>, Nobody)

(* static_data and dynamic_data.                                           *)
Buffers(static, dynamic) == [static |-> static, dynamic |-> dynamic]

(* How a key was written last.                                             *)
Note(by, bytes, payer) == [by |-> by, bytes |-> bytes, payer |-> payer]

Init ==
  /\ index_name \in {DefaultIndex, "own"}
  /\ \E k \in MapKey :
       rows = [o \in Owner |-> [f \in FullKey |->
                 IF o = Other /\ f = full_key(k) THEN Row(OtherBytes, Other) ELSE Nothing]]
  /\ buffers = Buffers([n \in 1..MaxStatic |-> 0], <<0>>)
  /\ wrappers = [w \in Wrapper |-> None]
  /\ meant = [k \in MapKey |-> Note("nobody", <<>>, Nobody)]
  /\ aborted = FALSE
  /\ calls = 0

-----------------------------------------------------------------------------
(* The buffers that rows are packed in, and unpacked from.                 *)

Resized(b, size) ==
  IF size <= Len(b.dynamic) THEN b
  ELSE Buffers(b.static, b.dynamic \o [n \in 1..(size - Len(b.dynamic)) |-> 0])

View(of, size, bs) == [of |-> of, size |-> size, buffers |-> bs]

(* Mutant: all of the vector is handed out, however long it has become.    *)
WholeBuffer(b, size) ==
  IF size > MaxStatic
  THEN View("dynamic", Len(Resized(b, size).dynamic), Resized(b, size))
  ELSE View("static", size, b)

get_tmp_buffer(b, size) ==
  IF size > MaxStatic THEN View("dynamic", size, Resized(b, size))
  ELSE View("static", size, b)

Over(buffer, bytes) ==
  [n \in DOMAIN buffer |-> IF n \in DOMAIN bytes THEN bytes[n] ELSE buffer[n]]

(* The buffers after bytes were written to the start of a view of them.    *)
Written(view, bytes) ==
  IF view.of = "static"
  THEN Buffers(Over(view.buffers.static, bytes), view.buffers.dynamic)
  ELSE Buffers(view.buffers.static, Over(view.buffers.dynamic, bytes))

Contents(view, bs) ==
  SubSeq(IF view.of = "static" THEN bs.static ELSE bs.dynamic, 1, view.size)

(* What has become of the rows and buffers once value is set.              *)
set(s, f, value, payer) ==
  LET view == get_tmp_buffer(s.buffers, Len(pack(value)))
      packed == Written(view, pack(value))
  IN [rows |-> [s.rows EXCEPT ![Self][f] = Row(Contents(view, packed), payer)],
      buffers |-> packed]

(* The buffers once the row, which must be there, was read.                *)
get(owner, f) ==
  Written(get_tmp_buffer(buffers, Len(rows[owner][f].bytes)), rows[owner][f].bytes)

Exists(owner, f) == rows[owner][f].payer # Nobody

-----------------------------------------------------------------------------
Called == ~aborted /\ calls < MaxCalls /\ calls' = calls + 1 /\ UNCHANGED index_name

Abort ==
  /\ aborted' = TRUE
  /\ UNCHANGED <<rows, buffers, wrappers, meant>>

Wrapped(owner, f, value, payer, current) ==
  [owner |-> owner, key |-> f, value |-> value, payer |-> payer, current |-> current]
Wrap(owner, f, value, payer) == Wrapped(owner, f, value, payer, TRUE)

(* The wrappers of a row no longer have what is in it.                     *)
Outdated(ws, owner, f) ==
  [w \in Wrapper |->
     IF ws[w] # None /\ ws[w].owner = owner /\ ws[w].key = f
     THEN Wrapped(owner, f, ws[w].value, ws[w].payer, FALSE) ELSE ws[w]]

All(rs, bs, ws, m) == [rows |-> rs, buffers |-> bs, wrappers |-> ws, meant |-> m]

Added(s, e) ==
  LET f == element_key(e.key)
      after == set(s, f, e.value, e.payer)
  IN All(after.rows, after.buffers, Outdated(s.wrappers, Self, f),
         [s.meant EXCEPT ![e.key] = Note("constructor", pack(e.value), e.payer)])

(* What has become of everything once the elements were added.             *)
AfterElements(elements) ==
  LET after[n \in 0..Len(elements)] ==
        IF n = 0 THEN All(rows, buffers, wrappers, meant)
        ELSE Added(after[n - 1], elements[n])
  IN after[Len(elements)]

(* map{owner, {{k, value, payer}, ...}}: one element after the other; the  *)
(* node lets a contract write to its own rows only.                        *)
Construct(owner, elements) ==
  /\ Called
  /\ IF owner # Self THEN Abort
     ELSE /\ rows' = AfterElements(elements).rows
          /\ buffers' = AfterElements(elements).buffers
          /\ wrappers' = AfterElements(elements).wrappers
          /\ meant' = AfterElements(elements).meant
          /\ UNCHANGED aborted

(* w = m[{k, payer}], or m[k] with the owner for payer, or m.at(k, payer): *)
(* the row is there.                                                       *)
Refer(w, owner, k, payer) ==
  LET f == full_key(k) IN
  /\ Called
  /\ Exists(owner, f)
  /\ IF ~Unpackable(rows[owner][f].bytes) THEN Abort
     ELSE /\ buffers' = get(owner, f)
          /\ wrappers' = [wrappers EXCEPT ![w] =
               Wrap(owner, f, unpack(rows[owner][f].bytes), payer)]
          /\ UNCHANGED <<rows, meant, aborted>>

(* operator[] stores a row, which it bills to the owner and not to payer.  *)
Insert(w, owner, k, payer) ==
  LET f == full_key(k)
      after == set([rows |-> rows, buffers |-> buffers], f, <<>>, owner)
  IN
  /\ Called
  /\ ~Exists(owner, f)
  /\ IF owner # Self THEN Abort
     ELSE /\ rows' = after.rows
          /\ buffers' = after.buffers
          /\ wrappers' = [Outdated(wrappers, owner, f) EXCEPT ![w] = Wrap(owner, f, <<>>, payer)]
          /\ meant' = [meant EXCEPT ![k] = Note("operator[]", pack(<<>>), owner)]
          /\ UNCHANGED aborted

(* "key not found"                                                         *)
at(owner, k) == Called /\ ~Exists(owner, full_key(k)) /\ Abort

(* w = value: the row is written with the payer the wrapper was asked for. *)
Assign(w, value) ==
  LET f == wrappers[w].key
      after == set([rows |-> rows, buffers |-> buffers], f, value, wrappers[w].payer)
  IN
  /\ wrappers[w] # None
  /\ Called
  /\ IF wrappers[w].owner # Self THEN Abort
     ELSE /\ rows' = after.rows
          /\ buffers' = after.buffers
          /\ wrappers' = [Outdated(wrappers, Self, f) EXCEPT ![w] =
               Wrap(Self, f, value, wrappers[w].payer)]
          /\ meant' = [meant EXCEPT ![f[2]] = Note("wrapper", pack(value), wrappers[w].payer)]
          /\ UNCHANGED aborted

(* w = x, for another wrapper: no operator= of the class takes one, so the *)
(* wrapper itself is replaced and no row is written.                       *)
Rebind(w, x) ==
  /\ wrappers[x] # None
  /\ Called
  /\ wrappers' = [wrappers EXCEPT ![w] = wrappers[x]]
  /\ UNCHANGED <<rows, buffers, meant, aborted>>

raw_write(owner, k, bytes, payer) ==
  /\ Called
  /\ IF owner # Self THEN Abort
     ELSE /\ rows' = [rows EXCEPT ![Self][full_key(k)] = Row(bytes, payer)]
          /\ meant' = [meant EXCEPT ![k] = Note("raw_write", bytes, payer)]
          /\ wrappers' = Outdated(wrappers, Self, full_key(k))
          /\ UNCHANGED <<buffers, aborted>>

erase(owner, k) ==
  /\ Called
  /\ IF owner # Self THEN Abort
     ELSE /\ rows' = [rows EXCEPT ![Self][full_key(k)] = Nothing]
          /\ meant' = [meant EXCEPT ![k] = Note("erase", <<>>, Nobody)]
          /\ wrappers' = Outdated(wrappers, Self, full_key(k))
          /\ UNCHANGED <<buffers, aborted>>

Next ==
  \/ \E o \in Owner, elements \in Elements : Construct(o, elements)
  \/ \E w \in Wrapper, o \in Owner, k \in MapKey, p \in Payer :
       Refer(w, o, k, p) \/ Insert(w, o, k, p)
  \/ \E o \in Owner, k \in MapKey : at(o, k)
  \/ \E w \in Wrapper, v \in Value : Assign(w, v)
  \/ \E w, x \in Wrapper : Rebind(w, x)
  \/ \E o \in Owner, k \in MapKey, b \in RawBytes, p \in Payer : raw_write(o, k, b, p)
  \/ \E o \in Owner, k \in MapKey : erase(o, k)

Spec == Init /\ [][Next]_vars

-----------------------------------------------------------------------------
(* Properties.                                                             *)

(* A row is what was last written to its key, no byte more, and is billed  *)
(* to who was to pay, through whichever wrapper or call, however long the  *)
(* rows were that the buffer held before; but elements that a map with an  *)
(* index name of its own was constructed from are not found in it          *)
(* (map.hpp:443-475, 612-665).                                             *)
RowsAreAsWritten ==
  \A k \in MapKey :
    index_name = DefaultIndex \/ meant[k].by # "constructor" =>
      rows[Self][full_key(k)] = Row(meant[k].bytes, meant[k].payer)

(* A wrapper has the value of its row until the row is written in another  *)
(* way.                                                                    *)
WrappersAreCurrent ==
  \A w \in Wrapper :
    wrappers[w] # None /\ wrappers[w].current =>
      LET row == rows[wrappers[w].owner][wrappers[w].key]
      IN Unpackable(row.bytes) /\ unpack(row.bytes) = wrappers[w].value

ElementsAreStored == RowsAreAsWritten /\ WrappersAreCurrent
=============================================================================
