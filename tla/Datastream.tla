----------------------------- MODULE Datastream -----------------------------
(***************************************************************************)
(* eosio::datastream (core/eosio/datastream.hpp): a position in a buffer,  *)
(* and the specialisation for size_t that only counts, to which pack first *)
(* gives what it then writes into a buffer of the size it counted.  Both   *)
(* get the same calls here.  Addresses and sizes are words: they wrap      *)
(* around, and a size that is cast to int32_t, or the difference of two    *)
(* pointers, is negative in its upper half.                                *)
(***************************************************************************)
EXTENDS Integers

CONSTANTS
  Word,     \* the number of values of size_t
  MaxBuffer \* the largest size of a buffer

VARIABLES
  start, pos, limit, \* _start, _pos and _end
  size,    \* _size of the stream that counts
  touched, \* the bytes the last call read, wrote or returned, first and count
  at_end,  \* the last seekp returned true
  honest,  \* every size so far was one of an object in memory
  packing, \* only calls that pack makes were made
  aborted  \* a check has failed

vars == <<start, pos, limit, size, touched, at_end, honest, packing, aborted>>

Address == 0..(Word - 1)
Half == Word \div 2

Plus(x, y) == IF x + y < Word THEN x + y ELSE x + y - Word
Minus(x, y) == IF x >= y THEN x - y ELSE x - y + Word
AsSigned(x) == IF x < Half THEN x ELSE x - Word

Nothing == [first |-> 0, count |-> 0]

(* A buffer lies in memory, which ends before the last address, and no     *)
(* object takes half of it.                                                *)
Init ==
  /\ start \in Address
  /\ limit \in {x \in start..(start + MaxBuffer) : x < Word - 1 /\ x - start < Half}
  /\ pos = start
  /\ size = 0
  /\ touched = Nothing
  /\ at_end = TRUE /\ honest = TRUE
  /\ packing = TRUE /\ aborted = FALSE

(* Programs do not go on at a position that seekp said was no good.        *)
Running == ~aborted /\ at_end

remaining == Minus(limit, pos)
tellp == Minus(pos, start)

(* A size of something that lies in memory behind the buffer's start.      *)
Honest(s) == s < Half /\ limit + s < Word

(* A call that takes s bytes from pos if allowed, and touches some.        *)
Take(s, allowed, count) ==
  /\ Running
  /\ honest' = (honest /\ Honest(s))
  /\ aborted' = ~allowed
  /\ pos' = IF allowed THEN Plus(pos, s) ELSE pos
  /\ touched' = IF allowed THEN [first |-> pos, count |-> count] ELSE Nothing
  /\ UNCHANGED <<start, limit, at_end>>

Reading == packing' = FALSE /\ UNCHANGED size

read(s) == Take(s, remaining >= s, s) /\ Reading
read_reuse_storage(s) == Take(s, s <= remaining, s) /\ Reading
check_available(s) == Take(0, s <= remaining, 0) /\ Reading
get == Take(1, pos < limit, 1) /\ Reading

(* What the stream that counts does for write, put and skip.               *)
Count(s) == size' = Plus(size, s) /\ UNCHANGED packing

(* The check compares signed numbers.                                      *)
write(s) == Take(s, AsSigned(Minus(limit, pos)) >= AsSigned(s), s) /\ Count(s)

(* Mutant: the end of the buffer is taken for a part of it.                *)
PutAtEnd == Take(1, pos <= limit, 1) /\ Count(1)

put == Take(1, pos < limit, 1) /\ Count(1)

(* skip moves, then checks where it is.                                    *)
skip(s) == Take(s, Plus(pos, s) <= limit, 0) /\ Count(s)

(* The position is moved also if the answer is no.                         *)
seekp(p) ==
  /\ ~aborted
  /\ pos' = Plus(start, p)
  /\ at_end' = (Plus(start, p) <= limit)
  /\ size' = p
  /\ honest' = (honest /\ Honest(p))
  /\ packing' = FALSE
  /\ touched' = Nothing
  /\ UNCHANGED <<start, limit, aborted>>

Next ==
  \/ \E s \in Address :
       \/ read(s) \/ read_reuse_storage(s) \/ check_available(s)
       \/ write(s) \/ skip(s) \/ seekp(s)
  \/ get \/ put

Spec == Init /\ [][Next]_vars

-----------------------------------------------------------------------------
(* As long as sizes are those of objects in memory and an answer of no     *)
(* from seekp is heeded, the stream stays in its buffer: it touches no     *)
(* byte outside and remaining and tellp make up the buffer; the checks     *)
(* that move first or compare signed numbers are enough for that.  What is *)
(* packed into a buffer of the size counted before never fails and fills   *)
(* it (datastream.hpp:51-176, 202-264, 453-465).                           *)
StaysInBuffer ==
  honest =>
    /\ touched.count > 0 => touched.first >= start /\ touched.first + touched.count <= limit
    /\ at_end /\ ~aborted => pos \in start..limit /\ tellp + remaining = limit - start
    /\ packing => IF aborted THEN size > limit - start ELSE size = tellp
=============================================================================
