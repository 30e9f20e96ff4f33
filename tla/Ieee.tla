-------------------------------- MODULE Ieee --------------------------------
(***************************************************************************)
(* The host's floating point, as the handlers of interp.c use it: IEEE 754 *)
(* with rounding to nearest, ties to even (nothing in the emulator changes *)
(* the mode), compiled for a processor without fused operations.           *)
(*                                                                         *)
(* A format f is "s" (float) or "d" (double): a sign, ExpBits[f] bits of   *)
(* exponent and FracBits[f] of fraction.                                   *)
(***************************************************************************)
EXTENDS Word

CONSTANTS XLen, WLen,          \* 64 and 32 in the code
          ExpBits, FracBits    \* 8 and 23 for "s", 11 and 52 for "d" in the code

Format == {"s", "d"}
Width(f) == IF f = "s" THEN WLen ELSE XLen

\* An int32_t is exact in a double, and no integer overflows a float or a double.
ASSUME IeeeAssumption ==
  /\ WLen \in Nat /\ XLen = 2 * WLen /\ AddrSpace = 2^XLen
  /\ ExpBits \in [Format -> Nat \ {0}] /\ FracBits \in [Format -> Nat]
  /\ \A f \in Format : /\ 1 + ExpBits[f] + FracBits[f] = Width(f)
                        /\ FracBits[f] > 1 /\ 2^(ExpBits[f] - 1) > XLen
  /\ FracBits["d"] + 1 >= WLen

\* The facts of exponentiation that the proofs use, up to the highest place of a
\* significand that is as long as a register.
MaxPlace == XLen + FracBits["d"] + 2

ASSUME PowerAssumption ==
  /\ \A k \in 0 .. MaxPlace : 2^k \in Nat /\ 2^k > k
  /\ \A k \in 0 .. MaxPlace : \A l \in 0 .. (MaxPlace - k) : 2^(k + l) = 2^k * 2^l

uint32(v) == v % 2^WLen
int32(v) == IF 2 * uint32(v) < 2^WLen THEN uint32(v) ELSE uint32(v) - 2^WLen
INT64_MIN == -(AddrSpace \div 2)

-----------------------------------------------------------------------------
(* Bit patterns.                                                           *)

sign(f, w) == w \div 2^(Width(f) - 1)
Magnitude(f, w) == w % 2^(Width(f) - 1)
exp(f, w) == Magnitude(f, w) \div 2^FracBits[f]
frac(f, w) == w % 2^FracBits[f]
EMax(f) == 2^ExpBits[f] - 1
QuietBit(f) == 2^(FracBits[f] - 1)
isNaN(f, w) == exp(f, w) = EMax(f) /\ frac(f, w) # 0

Signum(f, s) == s * 2^(Width(f) - 1)
-----------------------------------------------------------------------------
(* The host's arithmetic.  A finite pattern stands for                     *)
(* (-1)^sign * mant * 2^scale.                                             *)

Inf(f) == EMax(f) * 2^FracBits[f]
isInf(f, w) == Magnitude(f, w) = Inf(f)
isZero(f, w) == Magnitude(f, w) = 0
scaleMin(f) == 2 - 2^(ExpBits[f] - 1) - FracBits[f]
mant(f, w) == IF exp(f, w) = 0 THEN frac(f, w) ELSE 2^FracBits[f] + frac(f, w)
scale(f, w) == scaleMin(f) + (IF exp(f, w) = 0 THEN 0 ELSE exp(f, w) - 1)
Negative(f, w) == Magnitude(f, w) + Signum(f, 1 - sign(f, w))
SignedMant(f, w) == IF sign(f, w) = 1 THEN -mant(f, w) ELSE mant(f, w)

\* The position of the leading one of m > 0.
Log2(m) == CHOOSE k \in 0 .. m : m < 2^(k + 1) /\ \A j \in 0 .. k : 2^j <= m

\* m / 2^k to the nearest integer, ties to even.
RoundShift(m, k) ==
  LET q == m \div 2^k
      r == m % 2^k
  IN  IF 2 * r > 2^k \/ (2 * r = 2^k /\ q % 2 = 1) THEN q + 1 ELSE q

\* (-1)^s * m * 2^e in format f.
Round(f, s, m, e) ==
  IF m = 0 THEN Signum(f, s)
  ELSE LET ideal == Log2(m) + e - FracBits[f]
           q == IF ideal < scaleMin(f) THEN scaleMin(f) ELSE ideal
           n == IF q <= e THEN m * 2^(e - q)
                ELSE IF q - e > Log2(m) + 1 THEN 0 ELSE RoundShift(m, q - e)
           word == (q - scaleMin(f)) * 2^FracBits[f] + n
       IN  Signum(f, s) + (IF word >= Inf(f) THEN Inf(f) ELSE word)

\* The quiet NaN an operation may answer with: one of its NaN operands, made
\* quiet, or the default one; which, and its sign, depend on the instructions the
\* compiler picks.
NaNs(f, ws) ==
  LET from == {w \in ws : isNaN(f, w)}
      payloads == IF from = {} THEN {Inf(f) + QuietBit(f)}
                  ELSE { Inf(f) + QuietBit(f) + (frac(f, w) % QuietBit(f)) : w \in from }
  IN  { Signum(f, s) + p : s \in {0, 1}, p \in payloads }

\* The results a host operation may have are sets of patterns, with more than
\* one member only for a NaN.  Of two terms far apart, the lesser only decides
\* which way the greater is rounded.
Plus(f, a, b) ==
  LET hi == IF scale(f, a) >= scale(f, b) THEN a ELSE b
      lo == IF hi = a THEN b ELSE a
      gap == scale(f, hi) - scale(f, lo)
      far == gap > FracBits[f] + 3
      unit == IF isZero(f, lo) THEN 0 ELSE IF sign(f, lo) = 1 THEN -1 ELSE 1
      sum == IF far THEN 8 * SignedMant(f, hi) + unit ELSE SignedMant(f, hi) * 2^gap + SignedMant(f, lo)
      e == IF far THEN scale(f, hi) - 3 ELSE scale(f, lo)
  IN  CASE isNaN(f, a) \/ isNaN(f, b) -> NaNs(f, {a, b})
        [] isInf(f, a) /\ isInf(f, b) /\ a # b -> NaNs(f, {})
        [] isInf(f, a) /\ (a = b \/ ~isInf(f, b)) /\ ~isNaN(f, b) -> {a}
        [] isInf(f, b) /\ ~isInf(f, a) /\ ~isNaN(f, a) -> {b}
        [] OTHER -> { IF sum = 0 THEN Signum(f, sign(f, a) * sign(f, b))
                      ELSE IF sum < 0 THEN Round(f, 1, -sum, e) ELSE Round(f, 0, sum, e) }

Minus(f, a, b) == IF isNaN(f, b) THEN NaNs(f, {a, b}) ELSE Plus(f, a, Negative(f, b))

SignOf(f, a, b) == (sign(f, a) + sign(f, b)) % 2

Times(f, a, b) ==
  CASE isNaN(f, a) \/ isNaN(f, b) -> NaNs(f, {a, b})
    [] (isInf(f, a) /\ isZero(f, b)) \/ (isZero(f, a) /\ isInf(f, b)) -> NaNs(f, {})
    [] OTHER -> { IF isInf(f, a) \/ isInf(f, b) THEN Signum(f, SignOf(f, a, b)) + Inf(f)
                  ELSE Round(f, SignOf(f, a, b), mant(f, a) * mant(f, b),
                             scale(f, a) + scale(f, b)) }

Over(f, a, b) ==
  LET k == 2 * FracBits[f] + 3
      n == mant(f, a) * 2^k
      q == n \div mant(f, b)
      sticky == IF q * mant(f, b) = n THEN 0 ELSE 1
  IN  CASE isNaN(f, a) \/ isNaN(f, b) -> NaNs(f, {a, b})
        [] (isInf(f, a) /\ isInf(f, b)) \/ (isZero(f, a) /\ isZero(f, b)) -> NaNs(f, {})
        [] OTHER -> { IF isInf(f, a) \/ isZero(f, b) THEN Signum(f, SignOf(f, a, b)) + Inf(f)
                      ELSE IF isInf(f, b) THEN Signum(f, SignOf(f, a, b))
                      ELSE Round(f, SignOf(f, a, b), 2 * q + sticky,
                                 scale(f, a) - scale(f, b) - k - 1) }

Sqrt(f, a) ==
  LET least == 2 * FracBits[f] + 4 - Log2(mant(f, a))
      k == IF (scale(f, a) - least) % 2 = 0 THEN least ELSE least + 1
      n == mant(f, a) * 2^k
      r == CHOOSE i \in 0 .. 2^(FracBits[f] + 3) : i * i <= n /\ n < (i + 1) * (i + 1)
  IN  CASE isNaN(f, a) -> NaNs(f, {a})
        [] isZero(f, a) \/ a = Inf(f) -> {a}
        [] sign(f, a) = 1 /\ ~isZero(f, a) /\ ~isNaN(f, a) -> NaNs(f, {})
        [] OTHER -> { Round(f, 0, 2 * r + (IF r * r = n THEN 0 ELSE 1),
                            (scale(f, a) - k) \div 2 - 1) }

Order(f, w) == IF sign(f, w) = 1 THEN -Magnitude(f, w) ELSE Magnitude(f, w)
Unordered(f, a, b) == isNaN(f, a) \/ isNaN(f, b)
Equal(f, a, b) == ~Unordered(f, a, b) /\ Order(f, a) = Order(f, b)
Less(f, a, b) == ~Unordered(f, a, b) /\ Order(f, a) < Order(f, b)

\* llrintf and llrint: INT64_MIN when the result does not fit an int64_t.
llrint(f, w) ==
  LET m == mant(f, w)
      e == scale(f, w)
      n == IF e >= 0 THEN m * 2^e ELSE IF -e > Log2(m) + 1 THEN 0 ELSE RoundShift(m, -e)
  IN  IF isZero(f, w) THEN 0
      ELSE IF exp(f, w) = EMax(f) \/ Log2(m) + e >= XLen - 1 THEN INT64_MIN
      ELSE IF n = -INT64_MIN THEN INT64_MIN
      ELSE IF sign(f, w) = 1 THEN -n ELSE n

FromInt(f, i) == IF i < 0 THEN Round(f, 1, -i, 0) ELSE Round(f, 0, i, 0)

\* The conversion from format f to g; a NaN keeps its sign and its leading bits.
Convert(f, g, w) ==
  IF isNaN(f, w)
  THEN LET keep == frac(f, w) % QuietBit(f)
           bits == IF FracBits[g] >= FracBits[f] THEN keep * 2^(FracBits[g] - FracBits[f])
                   ELSE keep \div 2^(FracBits[f] - FracBits[g])
       IN  Signum(g, sign(f, w)) + Inf(g) + QuietBit(g) + bits
  ELSE IF isInf(f, w) THEN Signum(g, sign(f, w)) + Inf(g)
  ELSE Round(g, sign(f, w), mant(f, w), scale(f, w))
=============================================================================
