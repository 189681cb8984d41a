------------------------------ MODULE Eosiolib ------------------------------
(***************************************************************************)
(* Two functions of eosiolib.cpp: write_decimal, which prints the numbers  *)
(* of assets and symbols into a buffer, and the check of a producer's      *)
(* block signing authority.  A call is made and its outcome kept.          *)
(***************************************************************************)
EXTENDS Integers, Sequences, FiniteSets, SequencesExt

CONSTANTS
  Base,      \* 10
  MaxDigits, \* the digits of the largest number (20 for uint64_t)
  MaxPlaces, \* bound: decimal places
  Address,   \* the number of addresses, a pointer wraps around at it
  MaxWeight, \* the largest uint32_t
  Key,       \* public keys
  MaxKeys    \* bound: keys of an authority

VARIABLES
  request, \* the function and its arguments
  outcome  \* what it returned, <<>> before

-----------------------------------------------------------------------------
(* write_decimal(begin, end, dry_run, number, num_decimal_places, negative)*)

num_digits(number) == Cardinality({k \in 0..(MaxDigits - 1) : Base^k <= number})

(* Characters: the digits, and two that are none.                          *)
Digit == 0..(Base - 1)
Point == Base
Dash == Base + 1

Minus(c) == IF c.negative THEN 1 ELSE 0

(* Without a leading digit of the number there is a zero.                  *)
decimal_point_pos(c) ==
  Minus(c) + IF c.places >= num_digits(c.number) THEN 1
             ELSE num_digits(c.number) - c.places

characters_needed(c) ==
  (IF c.places >= num_digits(c.number) THEN c.places + 1 ELSE num_digits(c.number))
  + (IF c.places > 0 THEN 1 ELSE 0) + Minus(c)

actual_end(c) == (c.begin + characters_needed(c)) % Address

Fits(c) == actual_end(c) >= c.begin /\ actual_end(c) <= c.end

(* The text, written from its last character to its first; left[i] is what *)
(* remains of the number when character i is to be written.                *)
Text(c) ==
  LET last == characters_needed(c) - 1
      left[i \in 0..last] ==
        IF i = last THEN c.number
        ELSE IF i + 1 = decimal_point_pos(c) THEN left[i + 1]
        ELSE left[i + 1] \div Base
  IN [i \in 0..last |->
        IF i = decimal_point_pos(c) THEN Point
        ELSE IF i < Minus(c) THEN Dash
        ELSE left[i] % Base]

write_decimal(c) ==
  [end |-> actual_end(c),
   text |-> IF c.dry_run \/ ~Fits(c) THEN [i \in {} |-> 0] ELSE Text(c)]

-----------------------------------------------------------------------------
(* block_signing_authority_v0::is_valid.                                   *)

Saturating(sum, kw) ==
  IF MaxWeight - sum <= kw.weight THEN MaxWeight ELSE sum + kw.weight

is_valid(c) ==
  /\ Cardinality({c.keys[n].key : n \in DOMAIN c.keys}) = Len(c.keys)
  /\ c.threshold # 0
  /\ FoldLeft(Saturating, 0, c.keys) >= c.threshold

-----------------------------------------------------------------------------
Decimal == [f : {"write_decimal"}, begin : 0..(Address - 1), end : 0..(Address - 1),
            dry_run : BOOLEAN, number : 0..(Base^MaxDigits - 1),
            places : 0..MaxPlaces, negative : BOOLEAN]

KeyWeight == [key : Key, weight : 0..MaxWeight]
Authority == [f : {"is_valid"}, threshold : 0..MaxWeight,
              keys : UNION {[1..n -> KeyWeight] : n \in 0..MaxKeys}]

(* The range given to write_decimal is one of memory.                      *)
Init ==
  /\ request \in {c \in Decimal : c.begin <= c.end} \cup Authority
  /\ outcome = <<>>

Return ==
  /\ outcome = <<>>
  /\ outcome' = <<IF request.f = "is_valid" THEN is_valid(request)
                  ELSE write_decimal(request)>>
  /\ UNCHANGED request

Spec == Init /\ [][Return]_<<request, outcome>>

-----------------------------------------------------------------------------
(* Properties.                                                             *)

(* The number that digits of a text stand for, from one place to another.  *)
Read(text, from, to) ==
  LET value[n \in -1..to] ==
        IF n < from THEN 0 ELSE value[n - 1] * Base + text[n]
  IN value[to]

(* The text is the number: a minus if it is negative, its integer part     *)
(* without a leading zero, and exactly the decimal places asked for.       *)
IsDecimal(text, c) ==
  LET last == Cardinality(DOMAIN text) - 1
      points == {i \in DOMAIN text : text[i] = Point}
      point == IF points = {} THEN last + 1 ELSE CHOOSE i \in points : TRUE
      digits == {i \in DOMAIN text : text[i] \in Digit}
  IN /\ DOMAIN text = 0..last
     /\ points = {} <=> c.places = 0
     /\ {i \in DOMAIN text : text[i] = Dash} = {0} \cap {i \in {0} : c.negative}
     /\ digits = Minus(c)..last \ points
     /\ point > Minus(c) /\ (point > Minus(c) + 1 => text[Minus(c)] # 0)
     /\ c.places > 0 => last - point = c.places
     /\ Read(text, Minus(c), point - 1) * Base^c.places
        + Read(text, point + 1, last) = c.number

(* write_decimal writes the number into its range or nothing at all, and   *)
(* returns where the text would end, also for ranges too small and near    *)
(* the end of the address space (eosiolib.cpp:100-157, its @post).         *)
DecimalIsExact(c, r) ==
  IF r.text = [i \in {} |-> 0]
  THEN c.dry_run \/ r.end < c.begin \/ r.end > c.end
  ELSE /\ ~c.dry_run /\ IsDecimal(r.text, c)
       /\ Cardinality(DOMAIN r.text) <= c.end - c.begin
       /\ r.end = c.begin + Cardinality(DOMAIN r.text)

Total(keys) ==
  LET sum[n \in 0..Len(keys)] ==
        IF n = 0 THEN 0 ELSE sum[n - 1] + keys[n].weight
  IN sum[Len(keys)]

(* An authority is accepted when its keys are distinct and together can    *)
(* reach its threshold, which is not zero: that the sum saturates decides  *)
(* nothing, wherever in the sequence it happens (eosiolib.cpp:22-48).      *)
AuthorityIsSatisfiable(c, valid) ==
  valid <=> /\ \A m, n \in DOMAIN c.keys : m # n => c.keys[m].key # c.keys[n].key
            /\ c.threshold \in 1..Total(c.keys)

HelpersAreExact ==
  outcome # <<>> =>
    IF request.f = "is_valid" THEN AuthorityIsSatisfiable(request, outcome[1])
    ELSE DecimalIsExact(request, outcome[1])
=============================================================================
