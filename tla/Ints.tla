-------------------------------- MODULE Ints --------------------------------
(***************************************************************************)
(* Integers of Python (src/int.js).  One is held as a JavaScript number,   *)
(* which is a double, or as a BigInt.  The operators try doubles first,    *)
(* and turn to BigInts if an operand is one, or if the result may be       *)
(* rounded.  A double has Mantissa bits (53 in JavaScript), and its        *)
(* bitwise operators first make a number of Word bits (32) of it.          *)
(*                                                                         *)
(* A program computes with an integer x; exact is what x should be.        *)
(* Operands for which an operator is known to be wrong are left out, each  *)
(* by name.                                                                *)
(***************************************************************************)
EXTENDS Integers

CONSTANTS Mantissa, Word,
          Base,      \* round(x, -n) rounds to the nth power of this, 10 in Python
          HashMod,   \* hashes are modulo this
          Operand,   \* integers that x may meet
          MaxExact   \* bound: the absolute value of x

VARIABLES x, exact

vars == <<x, exact>>

MagnitudeOf(n) == IF n < 0 THEN -n ELSE n
Power(n, k) == LET p[j \in 0..k] == IF j = 0 THEN 1 ELSE n * p[j - 1] IN p[k]
MaxSafe == Power(2, Mantissa) - 1

Num(n) == [v |-> n, big |-> FALSE]
Big(n) == [v |-> n, big |-> TRUE]

-----------------------------------------------------------------------------
(* Doubles.                                                                *)

(* The integer nearest to n / m, for m > 0; of two the even one. *)
Nearest(n, m) ==
  LET q == n \div m
      twice == 2 * (n % m)
  IN IF twice > m \/ (twice = m /\ q % 2 = 1) THEN q + 1 ELSE q

(* The least k with n < 2^k * m. *)
Bits(n, m) == CHOOSE k \in 0..40 : n < Power(2, k) * m /\ \A j \in 0..(k - 1) : n >= Power(2, j) * m

Rounded(n) ==
  LET bits == Bits(MagnitudeOf(n), 1)
  IN IF bits <= Mantissa THEN n
     ELSE LET unit == Power(2, bits - Mantissa) IN Nearest(n, unit) * unit

(* Math.floor(n / m) of integers: the quotient is rounded to Mantissa      *)
(* bits, counted from the first that is not zero or before the point.      *)
FlooredQuotient(n, m) ==
  LET a == IF m < 0 THEN -n ELSE n
      b == MagnitudeOf(m)
      bits == Bits(MagnitudeOf(a), b)
      parts == Power(2, IF bits <= Mantissa THEN Mantissa - bits ELSE 0)
      unit == Power(2, IF bits <= Mantissa THEN 0 ELSE bits - Mantissa)
  IN (Nearest(a * parts, b * unit) * unit) \div parts

(* A bug: a sum that has been rounded down to the limit is taken. *)
WithinNext(n) == n <= MaxSafe + 1 /\ n >= -(MaxSafe + 1)

WithinThreshold(n) == n <= MaxSafe /\ n >= -MaxSafe

NumberIfSafe(n) == IF n < MaxSafe /\ n > -MaxSafe THEN Num(n) ELSE Big(n)

(* Two's complement: of Word bits, and of as many as it takes. *)
ToWord(n) == LET half == Power(2, Word - 1)
             IN ((n + half) % (2 * half)) - half

WideEnough == 2 * Mantissa
Bit(n, k) == (n \div Power(2, k)) % 2
FromBits(bit) ==
  LET sum[k \in 0..WideEnough] ==
        IF k = 0 THEN -bit[WideEnough] * Power(2, WideEnough)
        ELSE sum[k - 1] + bit[k - 1] * Power(2, k - 1)
  IN sum[WideEnough]
And(n, m) == FromBits([k \in 0..WideEnough |-> Bit(n, k) * Bit(m, k)])
Or(n, m)  == FromBits([k \in 0..WideEnough |-> IF Bit(n, k) + Bit(m, k) > 0 THEN 1 ELSE 0])
Xor(n, m) == FromBits([k \in 0..WideEnough |-> (Bit(n, k) + Bit(m, k)) % 2])

-----------------------------------------------------------------------------
(* BigInts.  Their quotients are cut off, toward zero.                     *)

Truncated(n, m) == LET q == MagnitudeOf(n) \div MagnitudeOf(m)
                   IN IF (n < 0) = (m < 0) THEN q ELSE -q
Remainder(n, m) == n - m * Truncated(n, m)

(* A bug: the quotient is cut off. *)
TruncatedDivide(n, m) == Truncated(n, m)

BigIntFloorDivide(n, m) ==
  IF Xor(n, m) >= 0 THEN Truncated(n, m)
  ELSE Truncated(IF n < 0 THEN n + 1 ELSE n - 1, m) - 1

BigIntRound(n, unit) ==
  LET a == MagnitudeOf(n)
      rest == 2 * (a % unit)
      q == a \div unit
      up == rest > unit \/ (rest = unit /\ q % 2 = 1)
      result == (IF up THEN q + 1 ELSE q) * unit
  IN IF n < 0 THEN -result ELSE result

(* By repeated squaring, from the last bit of the exponent on. *)
PowerMod(n, k, m) ==
  LET square[j \in 0..Mantissa] == IF j = 0 THEN n ELSE Remainder(square[j - 1] * square[j - 1], m)
      result[j \in 0..Mantissa] ==
        IF j = 0 THEN 1
        ELSE IF Bit(k, j - 1) = 1 THEN Remainder(result[j - 1] * square[j - 1], m)
        ELSE result[j - 1]
  IN result[Mantissa]

-----------------------------------------------------------------------------
(* The operators.                                                          *)

Numbers(y) == ~x.big /\ ~y.big

(* Sums, differences and products. *)
Slot(y, rounded, big) == IF Numbers(y) /\ WithinThreshold(rounded) THEN Num(rounded) ELSE big

Becomes(i, n) == MagnitudeOf(n) <= MaxExact /\ x' = i /\ exact' = n

Add(y) == Becomes(Slot(y, Rounded(x.v + y.v), NumberIfSafe(x.v + y.v)), exact + y.v)

Subtract(y) == Becomes(Slot(y, Rounded(x.v - y.v), NumberIfSafe(x.v - y.v)), exact - y.v)

Multiply(y) ==
  Becomes(Slot(y, Rounded(x.v * y.v), IF 0 \in {x.v, y.v} THEN Num(0) ELSE Big(x.v * y.v)),
          exact * y.v)

Floor(n, m) == IF m > 0 THEN n \div m ELSE (-n) \div (-m)

(* 0 // y and 0 % y are wrong for a negative BigInt y. *)
NegativeBigUnderZero(y) == x.v = 0 /\ y.big /\ y.v < 0

FloorDivide(y) ==
  /\ y.v # 0
  /\ ~NegativeBigUnderZero(y)
  /\ Becomes(IF Numbers(y) THEN Num(FlooredQuotient(x.v, y.v))
             ELSE NumberIfSafe(BigIntFloorDivide(x.v, y.v)),
             Floor(exact, y.v))

(* A multiple of y beyond what doubles can tell apart is rounded. *)
MultipleIsRounded(y) == LET m == FlooredQuotient(x.v, y.v) * y.v IN Rounded(m) # m

Modulo(y) ==
  /\ y.v # 0
  /\ ~NegativeBigUnderZero(y)
  /\ ~(Numbers(y) /\ MultipleIsRounded(y))
  /\ Becomes(IF Numbers(y) THEN Num(x.v - FlooredQuotient(x.v, y.v) * y.v)
             ELSE NumberIfSafe(x.v - y.v * BigIntFloorDivide(x.v, y.v)),
             exact - y.v * Floor(exact, y.v))

Negative == Becomes([x EXCEPT !.v = -@], -exact)
Abs == Becomes([x EXCEPT !.v = MagnitudeOf(@)], MagnitudeOf(exact))

(* A bug: numbers a bit too large for the bitwise operators. *)
FitsUnsigned(n) == MagnitudeOf(n) < Power(2, Word)

FitsWord(n) == MagnitudeOf(n) < Power(2, Word - 1)

BitOperator(y, Op) ==
  Becomes(IF Numbers(y) /\ FitsWord(x.v) /\ FitsWord(y.v)
          THEN Num(Op[ToWord(x.v), ToWord(y.v)]) ELSE NumberIfSafe(Op[x.v, y.v]),
          Op[exact, y.v])

Both(n, y) == {n, ToWord(n), exact, y.v, ToWord(y.v)}
BitAnd(y) == BitOperator(y, [n, m \in Both(x.v, y) |-> And(n, m)])
BitOr(y)  == BitOperator(y, [n, m \in Both(x.v, y) |-> Or(n, m)])
BitXor(y) == BitOperator(y, [n, m \in Both(x.v, y) |-> Xor(n, m)])

Invert == Becomes(IF ~x.big /\ FitsWord(x.v) THEN Num(-ToWord(x.v) - 1)
                  ELSE NumberIfSafe(-x.v - 1),
                  -exact - 1)

LeftShift(n) ==
  LET shifted == x.v * Power(2, n)
  IN Becomes(IF x.v = 0 THEN Num(0)
             ELSE IF ~x.big /\ n < Mantissa /\ WithinThreshold(shifted) THEN Num(shifted)
             ELSE Big(shifted),
             exact * Power(2, n))

RightShift(n) == Becomes(IF x.v = 0 THEN Num(0) ELSE NumberIfSafe(x.v \div Power(2, n)),
                         exact \div Power(2, n))

(* Exponents are numbers. *)
Pow(n) ==
  /\ MagnitudeOf(Power(exact, n)) <= MaxExact
  /\ LET rounded == Rounded(Power(x.v, n))
     IN Becomes(IF ~x.big /\ WithinThreshold(rounded) THEN Num(rounded) ELSE Big(Power(x.v, n)),
                Power(exact, n))

(* Signs are wrong, and so is pow(x, 0, 1), when it is left to PowerMod. *)
PowMod(n, y) ==
  /\ y.v # 0
  /\ MagnitudeOf(Power(exact, n)) <= Power(MaxExact, 2)
  /\ LET rounded == Rounded(Power(x.v, n))
         direct == ~x.big /\ WithinThreshold(rounded)
     IN /\ direct \/ (x.v >= 0 /\ y.v > 0 /\ ~(n = 0 /\ y.v = 1))
        /\ direct => ~y.big \/ (rounded # 0 \/ y.v > 0)
        /\ direct /\ ~y.big =>
             LET m == FlooredQuotient(rounded, y.v) * y.v IN Rounded(m) = m
        /\ Becomes(IF direct
                   THEN IF y.big THEN NumberIfSafe(rounded - y.v * BigIntFloorDivide(rounded, y.v))
                        ELSE Num(rounded - FlooredQuotient(rounded, y.v) * y.v)
                   ELSE NumberIfSafe(PowerMod(x.v, n, y.v)),
                   Power(exact, n) - y.v * Floor(Power(exact, n), y.v))

(* round(x, -n).  Of a number the quotient is a double, never so near to   *)
(* half an integer that it is rounded to that.  A BigInt that is rounded   *)
(* to zero stays one.                                                      *)
NearestEven(n, unit) == IF n < 0 THEN -Nearest(-n, unit) * unit ELSE Nearest(n, unit) * unit

Round(n) ==
  LET unit == Power(Base, n)
  IN /\ ~(x.big /\ BigIntRound(x.v, unit) = 0)
     /\ Becomes(IF x.big THEN Big(BigIntRound(x.v, unit))
                ELSE IF unit > Base * MagnitudeOf(x.v) THEN Num(0)
                ELSE Num(Rounded(NearestEven(x.v, unit))),
                NearestEven(exact, unit))

(* What a program may start from: a literal is a number if it fits. *)
Literal(n) == IF WithinThreshold(n) THEN Num(n) ELSE Big(n)

Init == \E n \in Operand : x = Literal(n) /\ exact = n

Next == \/ \E n \in Operand : LET y == Literal(n) IN
             \/ Add(y) \/ Subtract(y) \/ Multiply(y) \/ FloorDivide(y) \/ Modulo(y)
             \/ BitAnd(y) \/ BitOr(y) \/ BitXor(y)
             \/ \E k \in 0..3 : PowMod(k, y)
        \/ Negative \/ Abs \/ Invert
        \/ \E k \in 0..3 : LeftShift(k) \/ RightShift(k) \/ Pow(k)
        \/ \E k \in 1..2 : Round(k)

Spec == Init /\ [][Next]_vars

-----------------------------------------------------------------------------
(* tp$hash of a number, unless it is small, and of a BigInt. *)
HashOf(i) ==
  LET h == IF ~i.big /\ MagnitudeOf(i.v) < HashMod THEN i.v ELSE Remainder(i.v, HashMod)
  IN IF h = -1 THEN -2 ELSE h

(* However a program computes an integer, it has the exact value; it is    *)
(* false only if it is the number zero; and integers that are equal have   *)
(* the same hash, held as they may be.                                     *)
NumbersAreExact == /\ x.v = exact
                   /\ x.big => x.v # 0
                   /\ HashOf(x) = HashOf(Big(exact))

=============================================================================
