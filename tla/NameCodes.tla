----------------------------- MODULE NameCodes -----------------------------
(***************************************************************************)
(* Names of accounts, actions and tables as the compiler plugins turn them *)
(* into numbers and back, and the check of names in the contract's source  *)
(* (plugins/eosio/utils.hpp).  A character is its code.  A name has Full   *)
(* characters of five bits and one more of four; here Full is small.       *)
(***************************************************************************)
EXTENDS Integers, Sequences, SequencesExt

CONSTANTS
  Full,      \* 12
  Character  \* bound: characters of the texts to be checked

VARIABLES
  request, \* a text or a number
  outcome  \* what becomes of it, <<>> before

Dot == 46

(* The bits of the characters after the first k.                           *)
Below(k) == 5 * (Full - k) + 4
Number == 0..(2^Below(0) - 1)

-----------------------------------------------------------------------------
char_to_symbol(c) ==
  IF c \in 97..122 THEN c - 97 + 6 ELSE IF c \in 49..53 THEN c - 49 + 1 ELSE 0

charmap(v) == IF v = 0 THEN Dot ELSE IF v <= 5 THEN v + 48 ELSE v + 91

(* Of the last character four bits are kept.                               *)
string_to_name(str) ==
  LET Symbol(i) == IF i <= Len(str) THEN char_to_symbol(str[i]) ELSE 0
  IN FoldLeft(LAMBDA name, i : name + (Symbol(i) % 32) * 2^Below(i),
              Symbol(Full + 1) % 16, [i \in 1..Full |-> i])

Characters(nm) ==
  [i \in 1..(Full + 1) |->
     charmap(IF i = Full + 1 THEN nm % 16 ELSE (nm \div 2^Below(i)) % 32)]

(* The characters up to the last that is no dot.                           *)
TrimTo(str, last) == SubSeq(str, 1, last)
LastNotDot(str) == SelectLastInSeq(str, LAMBDA c : c # Dot)

(* Without an error of validate_name.                                      *)
validate_name(str) ==
  /\ Len(str) <= Full + 1
  /\ LET str2 == Characters(string_to_name(str)) IN TrimTo(str2, LastNotDot(str2)) = str

(* find_last_not_of finds nothing in the name that is 0, which is not      *)
(* trimmed.                                                                *)
name_to_string(nm) ==
  LET str == Characters(nm)
  IN IF LastNotDot(str) = 0 THEN str ELSE TrimTo(str, LastNotDot(str))

-----------------------------------------------------------------------------
Init ==
  /\ request \in [f : {"validate_name"}, text : BoundedSeq(Character, Full + 2)]
                 \cup [f : {"name_to_string"}, number : Number]
  /\ outcome = <<>>

Return ==
  /\ outcome = <<>>
  /\ outcome' = <<IF request.f = "validate_name" THEN validate_name(request.text)
                  ELSE name_to_string(request.number)>>
  /\ UNCHANGED request

Spec == Init /\ [][Return]_<<request, outcome>>

-----------------------------------------------------------------------------
Legal == {Dot} \cup 49..53 \cup 97..122

(* The names accepted are those that are written with legal characters,    *)
(* the last of all not above j, and do not end in a dot; each of them can  *)
(* be read back from its number.  Every number but 0 has such a name       *)
(* (utils.hpp:14-91).                                                      *)
NamesAreFaithful ==
  outcome # <<>> =>
    IF request.f = "validate_name"
    THEN LET s == request.text IN
         /\ outcome[1] <=> /\ Len(s) <= Full + 1 /\ ToSet(s) \subseteq Legal
                           /\ s # <<>> => Last(s) # Dot
                           /\ Len(s) = Full + 1 => s[Full + 1] <= 106
         /\ outcome[1] /\ s # <<>> => name_to_string(string_to_name(s)) = s
    ELSE request.number # 0 =>
           /\ validate_name(outcome[1])
           /\ string_to_name(outcome[1]) = request.number
=============================================================================
