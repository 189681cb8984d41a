------------------------------ MODULE RsaKeys ------------------------------
(***************************************************************************)
(* Texts of RSA public keys, taken apart into modulus and exponent         *)
(* (crypto_utils.hpp).  A text is a sequence of character codes between    *)
(* its header and its trailer, which are one symbol each; what comes out   *)
(* is the hexadecimal text of the two numbers, a sequence of digits.       *)
(***************************************************************************)
EXTENDS Integers, Sequences, SequencesExt

CONSTANTS
  Moduli, Exponents, \* numbers of keys, sequences of bytes without a zero at first
  Algorithms,        \* object identifiers, sequences of bytes
  LengthBytes,       \* bound: the bytes of a length, 0 for the short form
  LineLength         \* characters in a line of the text

VARIABLES
  request, \* the key whose text is given
  outcome  \* what it is taken for, <<>> before

NewLine == 10
Padding == 61
Header == -1
Trailer == -2

-----------------------------------------------------------------------------
(* Base 64.                                                                *)

is_base64_char(c) == c \in 48..57 \cup 65..90 \cup 97..122 \cup {43, 47}

base64_lookup(c) ==
  CASE c \in 65..90 -> c - 65
    [] c \in 97..122 -> c - 71
    [] c \in 48..57 -> c + 4
    [] c = 43 -> 62
    [] c = 47 -> 63
    [] OTHER -> 255

(* The three bytes of four characters.                                     *)
char_array_3(q) ==
  LET d == [n \in 1..4 |-> base64_lookup(q[n])]
  IN <<(d[1] * 4 + ((d[2] \div 16) % 4)) % 256,
       ((d[2] % 16) * 16 + ((d[3] \div 4) % 16)) % 256,
       ((d[3] % 4) * 64 + d[4]) % 256>>

(* The bytes of the characters left over, fewer than four.                 *)
Rest(rest) ==
  IF rest = <<>> THEN <<>>
  ELSE SubSeq(char_array_3(rest \o <<0, 0, 0>>), 1, Len(rest) - 1)

base64_decode(s) ==
  LET length == SelectInSeq(s \o <<Padding>>, LAMBDA c : c = Padding) - 1
      fours == length \div 4
  IN IF \E n \in 1..length : ~is_base64_char(s[n]) THEN <<>>
     ELSE FlattenSeq([k \in 1..fours |-> char_array_3(SubSeq(s, 4 * k - 3, 4 * k))])
            \o Rest(SubSeq(s, 4 * fours + 1, length))

to_hex(d) == FlattenSeq([n \in DOMAIN d |-> <<d[n] \div 16, d[n] % 16>>])

strip_newline(in) == SelectSeq(in, LAMBDA c : c # NewLine)

strip_header_trailer(in) ==
  IF in = <<>> \/ Head(in) # Header \/ Last(in) # Trailer THEN <<>>
  ELSE SubSeq(in, 2, Len(in) - 1)

-----------------------------------------------------------------------------
(* rsa_key_parser: its position and last byte, with what the last call     *)
(* read.  Whatever fails makes parse_rsa_pubkey fail in the end.           *)

Parser == [pos |-> 0, cur_byte |-> 0, ok |-> TRUE, len |-> 0, bytes |-> 0, text |-> <<>>]
Refused == [Parser EXCEPT !.ok = FALSE]

(* The position does not go past the last byte: it stays where a step      *)
(* would reach exactly the end.                                            *)
get_next(key, p, step) ==
  IF ~p.ok \/ p.pos >= Len(key) THEN Refused
  ELSE LET here == [p EXCEPT !.cur_byte = key[p.pos + 1]]
       IN IF p.pos = Len(key) - step THEN here
          ELSE IF p.pos + step >= Len(key) THEN Refused
          ELSE [here EXCEPT !.pos = p.pos + step]

(* get_next() && cur_byte == tag                                           *)
Tagged(key, p, tag) ==
  LET n == get_next(key, p, 1) IN IF n.cur_byte = tag THEN n ELSE Refused

(* A length is a byte below 0x80, or 0x80 and the number of its bytes.     *)
(* TooLong stands for all that are longer than any key; those just below   *)
(* 2^32, with which get_next would step back, do not occur.                *)
TooLong == 2^20

read_len(key, p) ==
  LET first == get_next(key, p, 1)
      count == first.cur_byte - 128
      after[k \in 0..count] ==
        IF k = 0 THEN [first EXCEPT !.len = 0, !.bytes = count]
        ELSE LET n == get_next(key, after[k - 1], 1)
             IN [n EXCEPT !.len = Min({TooLong, after[k - 1].len * 256 + n.cur_byte})]
  IN IF ~first.ok THEN Refused
     ELSE IF count < 0 THEN [first EXCEPT !.len = first.cur_byte, !.bytes = 0]
     ELSE IF count \in 1..4 THEN after[count]
     ELSE Refused

(* A length of 0 is what a call that fails returns.                        *)
NotEmpty(p) == IF p.len = 0 THEN Refused ELSE p

read_seq_len(key, p) == NotEmpty(read_len(key, Tagged(key, p, 48)))

(* key.substr(pos, len), and past it.                                      *)
Contents(key, p) ==
  LET n == get_next(key, p, p.len)
  IN IF n.ok THEN [n EXCEPT !.text = SubSeq(key, p.pos + 1, p.pos + p.len)] ELSE Refused

read_oid(key, p) == Contents(key, NotEmpty(read_len(key, Tagged(key, p, 6))))

get_null(key, p) == Tagged(key, Tagged(key, p, 5), 0)

read_bit_str(key, p) == NotEmpty(get_next(key, read_len(key, Tagged(key, p, 3)), 1))

read_int(key, p) ==
  LET n == Contents(key, NotEmpty(read_len(key, Tagged(key, p, 2))))
  IN IF n.ok /\ Head(n.text) = 0 THEN [n EXCEPT !.text = Tail(n.text)] ELSE n

-----------------------------------------------------------------------------
RsaOid == <<42, 134, 72, 134, 247, 13, 1, 1, 1>>

(* What is returned, and what the out-parameters hold then: the modulus is *)
(* in its one before the exponent is read, also when that fails.           *)
parse_rsa_pubkey(pubkey) ==
  LET key == base64_decode(strip_header_trailer(strip_newline(pubkey)))
      outer == read_seq_len(key, Parser)
      oid == read_oid(key, read_seq_len(key, outer))
      bits == read_bit_str(key, get_null(key, oid))
      mod == read_int(key, read_seq_len(key, bits))
      exp == read_int(key, mod)
      modRead ==
        /\ Len(key) >= 2
        /\ outer.ok /\ Len(key) - 2 - outer.bytes = outer.len
        /\ oid.ok /\ oid.text = RsaOid
        /\ mod.ok /\ mod.text # <<>>
      expRead == modRead /\ exp.ok /\ exp.text # <<>>
  IN [ret |-> IF expRead THEN 0 ELSE -1,
      mod |-> IF modRead THEN to_hex(mod.text) ELSE <<>>,
      exp |-> IF expRead THEN to_hex(exp.text) ELSE <<>>]

-----------------------------------------------------------------------------
(* Texts of keys, as other programs write them: pieces with a tag, a       *)
(* length of some form and contents, in base 64.                           *)
Bytes(n, k) == [i \in 1..k |-> (n \div 256^(k - i)) % 256]
Piece(tag, form, contents) ==
  <<tag>> \o (IF form = 0 THEN <<Len(contents)>>
              ELSE <<128 + form>> \o Bytes(Len(contents), form)) \o contents
Number(form, bytes) == Piece(2, form, IF bytes[1] >= 128 THEN <<0>> \o bytes ELSE bytes)

AlgorithmPiece(r) == Piece(48, r.form[2], Piece(6, r.form[3], r.oid) \o <<5, 0>>)
NumbersPiece(r) ==
  Piece(48, r.form[5], Number(r.form[6], r.mod) \o Number(r.form[7], r.exp))
Inside(r) == AlgorithmPiece(r) \o Piece(3, r.form[4], <<0>> \o NumbersPiece(r))

(* Without its last bytes, with the length it had or the one it has.       *)
Binary(r) ==
  LET left == SubSeq(Inside(r), 1, Len(Inside(r)) - r.cut)
  IN IF r.relabelled THEN Piece(48, r.form[1], left)
     ELSE SubSeq(Piece(48, r.form[1], Inside(r)), 1,
                 Len(Piece(48, r.form[1], Inside(r))) - r.cut)

Alphabet == [v \in 0..63 |-> CHOOSE c \in 0..127 : base64_lookup(c) = v]

base64(bytes) ==
  LET padded == bytes \o <<0, 0>>
      Four(k) ==
        LET n == padded[3 * k - 2] * 65536 + padded[3 * k - 1] * 256 + padded[3 * k]
        IN [i \in 1..4 |-> Alphabet[(n \div 64^(4 - i)) % 64]]
      all == FlattenSeq([k \in 1..((Len(bytes) + 2) \div 3) |-> Four(k)])
      unused == (3 - (Len(bytes) % 3)) % 3
  IN SubSeq(all, 1, Len(all) - unused) \o [n \in 1..unused |-> Padding]

Lines(s) ==
  FlattenSeq([n \in DOMAIN s |-> IF n % LineLength = 0 THEN <<s[n], NewLine>> ELSE <<s[n]>>])

Text(r) ==
  <<Header, NewLine>> \o Lines(base64(Binary(r)))
    \o (IF r.closed THEN <<NewLine, Trailer, NewLine>> ELSE <<NewLine>>)

Forms ==
  {[n \in 1..7 |-> 0]} \cup
  {[n \in 1..7 |-> IF n = k THEN b ELSE 0] : k \in 1..7, b \in LengthBytes}

Init ==
  /\ request \in [mod : Moduli, exp : Exponents, oid : Algorithms, form : Forms,
                  cut : 0..40, relabelled : BOOLEAN, closed : BOOLEAN]
  /\ request.cut < Len(Inside(request))
  /\ outcome = <<>>

Return ==
  /\ outcome = <<>>
  /\ outcome' = <<parse_rsa_pubkey(Text(request))>>
  /\ UNCHANGED request

Spec == Init /\ [][Return]_<<request, outcome>>

-----------------------------------------------------------------------------
(* The text of a key gives the hexadecimal texts of its numbers, whatever  *)
(* form its lengths have and wherever its lines end.  A key of another     *)
(* kind and one that breaks off are refused.  If the outermost length fits *)
(* what is left, the others tell: only a missing or broken exponent may be *)
(* read from bytes read before, since the parser stands still at the end   *)
(* (crypto_utils.hpp:201-281).                                             *)
KeysAreParsed ==
  outcome # <<>> =>
    LET key == outcome[1]
        proper == request.closed /\ request.oid = RsaOid
    IN IF proper /\ request.cut = 0
       THEN key = [ret |-> 0, mod |-> to_hex(request.mod), exp |-> to_hex(request.exp)]
       ELSE key.ret = 0 =>
              /\ proper /\ request.relabelled
              /\ request.cut <= Len(Number(request.form[7], request.exp))
              /\ key.mod = to_hex(request.mod)
=============================================================================
