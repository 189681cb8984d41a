------------------------------- MODULE Int128 -------------------------------
(***************************************************************************)
(* The arithmetic of __int128 and long double that compiled contracts call *)
(* (libraries/rt): multiplication, division and shifts of 128-bit integers *)
(* made of two 64-bit words, conversions between them and floats, and the  *)
(* comparison of long doubles.  A word has 2 * Digit bits here, an integer *)
(* two words.  An integer is the number its bits stand for when unsigned.  *)
(*                                                                         *)
(* The specification makes one call and keeps its answer.                  *)
(***************************************************************************)
EXTENDS Integers, FiniteSets

CONSTANTS
  Digit,    \* half the bits of a word, a digit of the division (32)
  Fraction, \* significandBits of the float (23, 52, 112)
  Exponent, \* exponentBits of the float (8, 11, 15)
  Operand,  \* the integers that are multiplied and divided
  NaN       \* the long double that is no number

VARIABLES
  call,   \* the function called, with its arguments
  answer  \* what it returned, <<>> before

W == 2 * Digit
N == 2 * W
b == 2^Digit

Wrap(x, bits) == x % 2^bits
Low(x) == x % 2^W
High(x) == x \div 2^W
Signed(x) == IF x < 2^(N - 1) THEN x ELSE x - 2^N

(* The wrappers pass an integer as its low and its high word.              *)
Join(low, high) == high * 2^W + low

(* x shifted, within n bits.                                               *)
Left(x, s, n) == (x * 2^s) % 2^n
Right(x, s) == x \div 2^s
ArithmeticRight(x, s, n) ==
  IF x < 2^(n - 1) THEN Right(x, s) ELSE 2^n - 1 - Right(2^n - 1 - x, s)

(* The number of bits below the leading zeros, N - __clzti2(x).            *)
Digits(x) == Cardinality({k \in 0..(N - 1) : 2^k <= x})
Clz(x) == W - Digits(x)

-----------------------------------------------------------------------------
(* Shifts by less than N.                                                  *)

(* The bit of b that stands for a shift by a whole word.                   *)
ByWord(s) == (s \div W) % 2 = 1

ashlti3(x, s) ==
  IF ByWord(s) THEN Join(0, Left(Low(x), s - W, W))
  ELSE IF s = 0 THEN x
  ELSE Join(Left(Low(x), s, W), Left(High(x), s, W) + Right(Low(x), W - s))

ashrti3(x, s) ==
  IF ByWord(s) THEN Join(ArithmeticRight(High(x), s - W, W),
                         ArithmeticRight(High(x), W - 1, W))
  ELSE IF s = 0 THEN x
  ELSE Join(Left(High(x), W - s, W) + Right(Low(x), s),
            ArithmeticRight(High(x), s, W))

lshrti3(x, s) ==
  IF ByWord(s) THEN Join(Right(High(x), s - W), 0)
  ELSE IF s = 0 THEN x
  ELSE Join(Left(High(x), W - s, W) + Right(Low(x), s), Right(High(x), s))

-----------------------------------------------------------------------------
(* Multiplication, the product of two words digit by digit.                *)

mulddi3(x, y) ==
  LET xl == x % b    xh == x \div b
      yl == y % b    yh == y \div b
      low1 == Wrap(xl * yl, W)
      t1 == Wrap(low1 \div b + xh * yl, W)
      low2 == Wrap((low1 % b) + (t1 % b) * b, W)
      t2 == Wrap(low2 \div b + yh * xl, W)
      low3 == Wrap((low2 % b) + (t2 % b) * b, W)
  IN Join(low3, Wrap(t1 \div b + t2 \div b + xh * yh, W))

multi3(x, y) ==
  LET r == mulddi3(Low(x), Low(y))
  IN Join(Low(r), Wrap(High(r) + High(x) * Low(y) + Low(x) * High(y), W))

-----------------------------------------------------------------------------
(* Division.                                                               *)

(* The turns of the loop that corrects the quotient digit q, estimated     *)
(* with remainder rhat, for the divisor digits v1 and v0 and the next      *)
(* dividend digit u.                                                       *)
Corrections(q, rhat, v1, v0, u) ==
  LET TooLarge(n) == q - n >= b \/ Wrap((q - n) * v0, W)
                                   > Wrap(b * (rhat + n * v1) + u, W)
      Stops(n) == ~TooLarge(n) \/ (n > 0 /\ rhat + n * v1 >= b)
  IN CHOOSE n \in 0..q : Stops(n) /\ \A m \in 0..(n - 1) : ~Stops(m)

(* Mutant: the estimate is taken without correcting it.                    *)
DigitEstimated(u, un, v) == u \div (v \div b)

(* One digit of the quotient of u * b + un by v.                           *)
QuotientDigit(u, un, v) ==
  LET q == u \div (v \div b)
      rhat == u - q * (v \div b)
  IN q - Corrections(q, rhat, v \div b, v % b, un)

(* The quotient of the words u1 u0 by the word v, which is more than u1,   *)
(* with the remainder; the divisor is first shifted until its top bit is   *)
(* set.                                                                    *)
udiv128by64to64(u1, u0, v) ==
  LET s == Clz(v)
      vn == Left(v, s, W)
      un64 == IF s > 0 THEN Left(u1, s, W) + Right(u0, W - s) ELSE u1
      un10 == Left(u0, s, W)
      q1 == QuotientDigit(un64, un10 \div b, vn)
      un21 == Wrap(un64 * b + un10 \div b - q1 * vn, W)
      q0 == QuotientDigit(un21, un10 % b, vn)
  IN [quot |-> Wrap(q1 * b + q0, W),
      rem |-> Right(Wrap(un21 * b + (un10 % b) - q0 * vn, W), s)]

(* A turn of the loop that subtracts the shifted divisor; whether it fits  *)
(* is the sign bit of the difference.                                      *)
Turn(l) ==
  LET fits == Wrap(l.divisor - l.dividend - 1, N) \div 2^(N - 1)
  IN [dividend |-> l.dividend - fits * l.divisor,
      divisor |-> l.divisor \div 2,
      quotient |-> Left(l.quotient, 1, W) + fits]

udivmodti4(x, y) ==
  LET shift == Clz(High(y)) - Clz(High(x))
      loop[n \in 0..(shift + 1)] ==
        IF n = 0 THEN [dividend |-> x, divisor |-> Left(y, shift, N), quotient |-> 0]
        ELSE Turn(loop[n - 1])
      d == udiv128by64to64(High(x) % Low(y), Low(x), Low(y))
  IN
  IF y > x THEN [quot |-> 0, rem |-> x]
  ELSE IF High(y) = 0
       THEN [quot |-> Join(d.quot, High(x) \div Low(y)), rem |-> d.rem]
  ELSE [quot |-> loop[shift + 1].quotient, rem |-> loop[shift + 1].dividend]

(* (x ^ s) - s with s all ones if neg, else zero.                          *)
NegateIf(neg, x) == IF neg THEN Wrap(-x, N) ELSE x
IsNegative(x) == x >= 2^(N - 1)
Absolute(x) == NegateIf(IsNegative(x), x)

divti3(x, y) ==
  NegateIf(IsNegative(x) # IsNegative(y),
           udivmodti4(Absolute(x), Absolute(y)).quot)
modti3(x, y) ==
  NegateIf(IsNegative(x), udivmodti4(Absolute(x), Absolute(y)).rem)
udivti3(x, y) == udivmodti4(x, y).quot
umodti3(x, y) == udivmodti4(x, y).rem

-----------------------------------------------------------------------------
(* Floats: their bits are a sign, an exponent and a fraction.              *)

Bias == 2^(Exponent - 1) - 1
Float == 0..(2^(1 + Exponent + Fraction) - 1)
SignBit(a) == a \div 2^(Exponent + Fraction)
ExponentOf(a) == ((a \div 2^Fraction) % 2^Exponent) - Bias
Significand(a) == (a % 2^Fraction) + 2^Fraction

(* The significand shifted to its place.                                   *)
Magnitude(a) ==
  IF ExponentOf(a) < Fraction
  THEN Right(Significand(a), Fraction - ExponentOf(a))
  ELSE Left(Significand(a), ExponentOf(a) - Fraction, N)

(* fixsfti, fixdfti and fixtfti.                                           *)
fixti(a) ==
  IF ExponentOf(a) < 0 THEN 0
  ELSE IF ExponentOf(a) >= N
       THEN IF SignBit(a) = 1 THEN 2^(N - 1) ELSE 2^(N - 1) - 1
  ELSE NegateIf(SignBit(a) = 1, Magnitude(a))

(* fixunssfti, fixunsdfti and fixunstfti.                                  *)
fixunsti(a) ==
  IF SignBit(a) = 1 \/ ExponentOf(a) < 0 THEN 0
  ELSE IF ExponentOf(a) >= N THEN 2^N - 1
  ELSE Magnitude(a)

Or(x, bit) == IF bit /\ x % 2 = 0 THEN x + 1 ELSE x

(* x shifted to Fraction + 3 bits, the last one set if a bit was lost.     *)
Sticky(x, sd) ==
  IF sd = Fraction + 2 THEN 2 * x
  ELSE Or(Right(x, sd - (Fraction + 3)), x % 2^(sd - (Fraction + 3)) # 0)

(* P is ored into R, then one is added and the two bits are dropped.       *)
Rounded(y) == (Or(y, (y \div 4) % 2 = 1) + 1) \div 4

(* floatuntidf, and floattidf with the sign.                               *)
floatti(x, sign) ==
  LET sd == Digits(x)
      r == Rounded(Sticky(x, sd))
      carry == sd > Fraction + 1 /\ r >= 2^(Fraction + 1)
      a == IF sd <= Fraction + 1 THEN Left(x, Fraction + 1 - sd, N)
           ELSE IF carry THEN r \div 2 ELSE r
      e == IF carry THEN sd ELSE sd - 1
  IN IF x = 0 THEN 0
     ELSE sign * 2^(Exponent + Fraction) + (e + Bias) * 2^Fraction
          + (a % 2^Fraction)

floatuntidf(x) == floatti(x, 0)
floattidf(x) == floatti(Absolute(x), IF IsNegative(x) THEN 1 ELSE 0)

-----------------------------------------------------------------------------
(* Comparison of long doubles, numbers or NaN; softfloat is external.      *)

f128_lt(x, y) == x < y
f128_eq(x, y) == x = y

cmptf2(x, y, if_nan) ==
  IF x = NaN \/ y = NaN THEN if_nan
  ELSE IF f128_lt(x, y) THEN -1
  ELSE IF f128_eq(x, y) THEN 0 ELSE 1

IfNan == [eq |-> 1, ne |-> 1, ge |-> -1, gt |-> 0, le |-> 1, lt |-> 0]

-----------------------------------------------------------------------------
Integer == 0..(2^N - 1)
LongDouble == {-1, 0, 1, NaN}

Shift == [f : {"ashlti3", "lshlti3", "ashrti3", "lshrti3"}, x : Operand, y : 0..(N - 1)]
Product == [f : {"multi3"}, x : Operand, y : Operand]
Quotient == [f : {"divti3", "modti3", "udivti3", "umodti3"}, x : Operand, y : Operand \ {0}]
FromFloat == [f : {"fixti", "fixunsti"}, x : Float]
ToFloat == [f : {"floattidf", "floatuntidf"}, x : Integer]
Comparison == [f : DOMAIN IfNan, x : LongDouble, y : LongDouble]

Call == Shift \cup Product \cup Quotient \cup FromFloat \cup ToFloat \cup Comparison

(* The functions of compiler_builtins.cpp.                                 *)
Answer(c) ==
  CASE c.f \in {"ashlti3", "lshlti3"} -> ashlti3(c.x, c.y)
    [] c.f = "ashrti3" -> ashrti3(c.x, c.y)
    [] c.f = "lshrti3" -> lshrti3(c.x, c.y)
    [] c.f = "multi3" -> multi3(c.x, c.y)
    [] c.f = "divti3" -> divti3(c.x, c.y)
    [] c.f = "modti3" -> modti3(c.x, c.y)
    [] c.f = "udivti3" -> udivti3(c.x, c.y)
    [] c.f = "umodti3" -> umodti3(c.x, c.y)
    [] c.f = "fixti" -> fixti(c.x)
    [] c.f = "fixunsti" -> fixunsti(c.x)
    [] c.f = "floattidf" -> floattidf(c.x)
    [] c.f = "floatuntidf" -> floatuntidf(c.x)
    [] OTHER -> cmptf2(c.x, c.y, IfNan[c.f])

Init == call \in Call /\ answer = <<>>

Evaluate == answer = <<>> /\ answer' = <<Answer(call)>> /\ UNCHANGED call

Spec == Init /\ [][Evaluate]_<<call, answer>>

-----------------------------------------------------------------------------
(* What the calls should answer.                                           *)

Truncated(x, y) ==
  LET abs(n) == IF n < 0 THEN -n ELSE n
      q == abs(x) \div abs(y)
  IN IF (x < 0) = (y < 0) THEN q ELSE -q

(* An integer and a float, both times 2^(Bias + Fraction), as integers.    *)
Scaled(x) == x * 2^(Bias + Fraction)
Value(a) ==
  LET v == Significand(a) * 2^(ExponentOf(a) + Bias)
  IN IF a % 2^(Exponent + Fraction) = 0 THEN 0 ELSE IF SignBit(a) = 1 THEN -v ELSE v

(* The nearest float, the one with an even fraction of two.                *)
IsNearest(a, x) ==
  LET d(c) == IF Value(c) < Scaled(x) THEN Scaled(x) - Value(c) ELSE Value(c) - Scaled(x)
  IN \A c \in {a - 1, a + 1} \cap Float :
       SignBit(c) = SignBit(a) => d(a) < d(c) \/ (d(a) = d(c) /\ a % 2 = 0)

Ieee(f, x, y) ==
  CASE f = "eq" -> x # NaN /\ x = y
    [] f = "ne" -> x = NaN \/ x # y
    [] f = "lt" -> NaN \notin {x, y} /\ x < y
    [] f = "le" -> NaN \notin {x, y} /\ x <= y
    [] f = "gt" -> NaN \notin {x, y} /\ x > y
    [] f = "ge" -> NaN \notin {x, y} /\ x >= y

(* How the compiler reads the answer of a comparison.                      *)
Reads(f, n) ==
  CASE f = "eq" -> n = 0
    [] f = "ne" -> n # 0
    [] f = "lt" -> n < 0
    [] f = "le" -> n <= 0
    [] f = "gt" -> n > 0
    [] f = "ge" -> n >= 0

(* A float's integer part, saturated to the range the function returns.    *)
(* The signed functions saturate only from 2^N on; between 2^(N-1) and     *)
(* that their shift overflows, which C leaves undefined, and nothing is    *)
(* said of the answer.                                                     *)
Saturated(x, least, greatest) ==
  IF x < least THEN least ELSE IF x > greatest THEN greatest ELSE x
IntegerPart(a) == Truncated(Value(a), 2^(Bias + Fraction))
Overflows(a) == ExponentOf(a) = N - 1 /\ a # 2^(Exponent + Fraction) + (N - 1 + Bias) * 2^Fraction

(* Each call answers with exactly what the language says of its operator:  *)
(* the division by digits with its estimates and corrections               *)
(* (udivmodti4.c:23-148), the product of halves with its carries           *)
(* (multi3.c:19-49), signs, shifts across the words, conversions that      *)
(* truncate and saturate or round to nearest even (floattidf.c:26-79), and *)
(* comparisons with NaN (compiler_builtins.cpp:202-241).                   *)
IsExact(c, n) ==
  CASE c.f \in {"ashlti3", "lshlti3"} -> n = (c.x * 2^c.y) % 2^N
    [] c.f = "ashrti3" -> n = Wrap(Signed(c.x) \div 2^c.y, N)
    [] c.f = "lshrti3" -> n = c.x \div 2^c.y
    [] c.f = "multi3" -> n = Wrap(c.x * c.y, N)
    [] c.f = "divti3" -> n = Wrap(Truncated(Signed(c.x), Signed(c.y)), N)
    [] c.f = "modti3" ->
         n = Wrap(Signed(c.x) - Signed(c.y) * Truncated(Signed(c.x), Signed(c.y)), N)
    [] c.f = "udivti3" -> n = c.x \div c.y
    [] c.f = "umodti3" -> n = c.x % c.y
    [] c.f = "fixti" ->
         Overflows(c.x) \/ Signed(n) = Saturated(IntegerPart(c.x), -2^(N - 1), 2^(N - 1) - 1)
    [] c.f = "fixunsti" -> n = Saturated(IntegerPart(c.x), 0, 2^N - 1)
    [] c.f = "floattidf" -> IsNearest(n, Signed(c.x))
    [] c.f = "floatuntidf" -> IsNearest(n, c.x)
    [] OTHER -> Reads(c.f, n) = Ieee(c.f, c.x, c.y)

ArithmeticIsExact == \A n \in 1..Cardinality(DOMAIN answer) : IsExact(call, answer[n])
=============================================================================
