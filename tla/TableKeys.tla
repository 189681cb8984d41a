------------------------------ MODULE TableKeys ------------------------------
(***************************************************************************)
(* What the tables of eosiolib give the node to keep: the keys and rows of *)
(* key-value tables and maps (kv_base.hpp, key_utils.hpp, kv.hpp, map.hpp),*)
(* the names of the tables of a multi_index' secondary indices, and their  *)
(* keys (multi_index.hpp).  Something is written and read, or looked for,  *)
(* once.                                                                   *)
(***************************************************************************)
EXTENDS Integers, Sequences, FiniteSets, SequencesExt

CONSTANTS
  NameByte,   \* the values of one byte of a name, which here has two
  Indices,    \* the number of secondary indices a multi_index may have (16)
  Key,        \* bound: keys without their prefix, sequences of bytes
  RowType,    \* types of rows: sequences of the alternatives they are a variant of
  RowBytes    \* bound: values of an alternative, sequences of bytes

VARIABLES
  request, \* what is asked for
  outcome  \* what comes of it, <<>> before

Name == 0..(NameByte * NameByte - 1)
BigEndian(n) == <<n \div NameByte, n % NameByte>>
Native(n) == Reverse(BigEndian(n))

-----------------------------------------------------------------------------
(* Keys of key-value tables and of maps.                                   *)

(* convert_to_key, for a byte and two names.                               *)
make_prefix(t) == <<1>> \o BigEndian(t.table) \o BigEndian(t.index)

(* The prefix of a map: what is copied from memory is turned around.       *)
const_pack(t) == <<1>> \o Reverse(Native(t.table)) \o Reverse(Native(t.index))

full_key(prefix, key) == prefix \o key

(* The characters of a key's text, by their codes.                         *)
Character(nibble) == IF nibble < 10 THEN 48 + nibble ELSE 97 + (nibble - 10)
to_hex(key) ==
  [n \in 1..(2 * Len(key)) |->
     LET b == key[(n + 1) \div 2] IN Character(IF n % 2 = 1 THEN b \div 16 ELSE b % 16)]

Nibble(c) == IF c <= 57 THEN c - 48 ELSE 10 + (c - 97)
from_hex(text) ==
  [n \in 1..(Len(text) \div 2) |-> 16 * Nibble(text[2 * n - 1]) + Nibble(text[2 * n])]

-----------------------------------------------------------------------------
(* Rows: the number of the alternative, in one byte, and a value.  A type  *)
(* that is no variant has one alternative.                                 *)
pack_size(v) == Len(v.bytes)

(* serialize, into a buffer of get_size bytes.                             *)
serialize(v) == <<v.alternative - 1>> \o v.bytes
get_size(v) == 1 + pack_size(v)

(* "there was an error deserializing this value." is <<>>.                 *)
deserialize(type, row) ==
  IF row[1] + 1 \notin DOMAIN type THEN <<>>
  ELSE <<[type |-> type[row[1] + 1], bytes |-> Tail(row)]>>

-----------------------------------------------------------------------------
(* Secondary indices of a multi_index.                                     *)

(* A name of at most 12 characters leaves the last four bits free.         *)
validate_table_name(n) == n % Indices = 0
index_table_name(t) == (t.table \div Indices) * Indices + (t.number % Indices)

Infinity == 3

(* The keys of each type as the words that the node compares, in order.    *)
Keys ==
  [uint64_t |-> {<<n>> : n \in 0..3}, double |-> {<<n>> : n \in -Infinity..Infinity},
   fixed_bytes |-> (0..1) \X (0..1)]

Below(x, y) ==
  \E n \in DOMAIN x : x[n] < y[n] /\ \A k \in 1..(n - 1) : x[k] = y[k]

true_lowest == [uint64_t |-> <<0>>, double |-> <<-Infinity>>, fixed_bytes |-> <<0, 0>>]

(* The entry with the lowest key that is not below key, or above it.       *)
Lookup(r, key, above) ==
  LET found == {e \in r.entries : ~Below(e, key) /\ (above => e # key)}
  IN {e \in found : \A d \in found : ~Below(d, e)}

db_idx_lowerbound(r, key) == Lookup(r, key, FALSE)
db_idx_upperbound(r, key) == Lookup(r, key, TRUE)

-----------------------------------------------------------------------------
TableAndIndex == [table : Name, index : Name]
IndexTable == [table : {n \in Name : validate_table_name(n)}, number : 0..(Indices - 1)]

(* Keys of two tables; a row written as one type and read as another;      *)
(* index tables; a lookup among the entries of a secondary index.          *)
Requests ==
  [f : {"keys"}, t : TableAndIndex, u : TableAndIndex, key : Key]
  \cup (UNION {[f : {"row"}, type : {w}, as : RowType,
               v : [alternative : DOMAIN w, bytes : RowBytes]] : w \in RowType})
  \cup [f : {"names"}, t : IndexTable, u : IndexTable]
  \cup (UNION {[f : {"lookup"}, kind : {k}, entries : SUBSET Keys[k], key : Keys[k]] :
               k \in DOMAIN Keys})

Init == request \in Requests /\ outcome = <<>>

Answer(r) ==
  CASE r.f = "keys" ->
         [table |-> full_key(make_prefix(r.t), r.key), map |-> full_key(const_pack(r.t), r.key),
          other |-> make_prefix(r.u), read |-> from_hex(to_hex(r.key))]
    [] r.f = "row" ->
         [row |-> serialize(r.v), size |-> get_size(r.v),
          read |-> deserialize(r.as, serialize(r.v))]
    [] r.f = "names" -> [t |-> index_table_name(r.t), u |-> index_table_name(r.u)]
    [] r.f = "lookup" ->
         [begin |-> db_idx_lowerbound(r, true_lowest[r.kind]),
          lower |-> db_idx_lowerbound(r, r.key), upper |-> db_idx_upperbound(r, r.key)]

Return ==
  /\ outcome = <<>>
  /\ outcome' = <<Answer(request)>>
  /\ UNCHANGED request

Spec == Init /\ [][Return]_<<request, outcome>>

-----------------------------------------------------------------------------
(* Properties.                                                             *)

(* An iterator over the keys of one index never meets one of another; the  *)
(* keys of a map are those of a table with its names, though they are put  *)
(* together by other code; the text of a key is read as the key            *)
(* (kv_base.hpp:85-175, key_utils.hpp:27-50).                              *)
KeysStayApart(r, o) ==
  /\ IsPrefix(o.other, o.table) => r.t = r.u
  /\ o.map = o.table
  /\ o.read = r.key

(* A row fills its buffer, and is read as what was written when the type   *)
(* of the table has not changed or has been given more alternatives        *)
(* (kv.hpp:798-846).                                                       *)
RowsAreKept(r, o) ==
  /\ Len(o.row) = o.size
  /\ IsPrefix(r.type, r.as) =>
       o.read = <<[type |-> r.type[r.v.alternative], bytes |-> r.v.bytes]>>

(* begin is the first entry of all, and the bounds are the entries next to *)
(* a key (multi_index.hpp:197-285).                                        *)
EntriesAreFound(r, o) ==
  /\ r.entries # {} => o.begin # {}
  /\ \A x \in o.begin, e \in r.entries : ~Below(e, x)
  /\ r.key \in r.entries => o.lower = {r.key}
  /\ \A x \in o.upper : Below(r.key, x)
  /\ \A e \in r.entries :
       Below(r.key, e) => (o.upper # {} /\ \A x \in o.upper : ~Below(e, x))

(* Two indices never share a table, of one multi_index or of two           *)
(* (multi_index.hpp:394-455).                                              *)
KeysAreFaithful ==
  outcome # <<>> =>
    CASE request.f = "keys" -> KeysStayApart(request, outcome[1])
      [] request.f = "row" -> RowsAreKept(request, outcome[1])
      [] request.f = "names" -> outcome[1].t = outcome[1].u => request.t = request.u
      [] request.f = "lookup" -> EntriesAreFound(request, outcome[1])
=============================================================================
