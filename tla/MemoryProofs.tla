---------------------------- MODULE MemoryProofs ----------------------------
(***************************************************************************)
(* The load and store handlers, for every byte width, every memory map and *)
(* every number of stores: a load returns what the stores before it left.  *)
(***************************************************************************)
EXTENDS Memory, TLAPS

-----------------------------------------------------------------------------
(* Words and the weights of their bytes.                                   *)

\* Wrap returns a word, and keeps one.
LEMMA WrapWord ==
  /\ \A x \in Int : Wrap(x) \in Word
  /\ \A x \in Word : Wrap(x) = x
  /\ \A x \in Int : -AddrSpace <= x /\ x < 0 => Wrap(x) = x + AddrSpace
BY WordAssumption DEF Wrap, Word

\* Each weight is ByteSize times the one before.
LEMMA Weights ==
  /\ Weight[0] = 1
  /\ \A k \in 0 .. 8 : Weight[k] \in Nat /\ Weight[k] > 0
  /\ \A k \in 0 .. 7 : Weight[k + 1] = ByteSize * Weight[k]
<1>1. ByteSize \in Nat /\ ByteSize > 0
  BY MemoryAssumption
<1> DEFINE two == ByteSize * ByteSize
           four == two * two
<1>2. /\ Weight[0] = 1 /\ Weight[1] = ByteSize /\ Weight[2] = two
      /\ Weight[3] = two * ByteSize /\ Weight[4] = four
      /\ Weight[5] = four * ByteSize /\ Weight[6] = four * two
      /\ Weight[7] = four * two * ByteSize /\ Weight[8] = four * four
  BY DEF Weight
<1>3. two \in Nat /\ two > 0
  BY <1>1
<1>4. four \in Nat /\ four > 0
  <2> HIDE DEF two
  <2>1. QED
    BY <1>3
<1>5. /\ two = ByteSize * 1 * ByteSize /\ two * ByteSize = ByteSize * two
      /\ four = ByteSize * (two * ByteSize) /\ four * ByteSize = ByteSize * four
      /\ four * two = ByteSize * (four * ByteSize)
      /\ four * two * ByteSize = ByteSize * (four * two)
      /\ four * four = ByteSize * (four * two * ByteSize)
  BY <1>1
<1> HIDE DEF four, two
<1>6. /\ two * ByteSize \in Nat /\ two * ByteSize > 0
      /\ four * ByteSize \in Nat /\ four * ByteSize > 0
      /\ four * two \in Nat /\ four * two > 0
      /\ four * four \in Nat /\ four * four > 0
  BY <1>1, <1>3, <1>4
<1>7. four * two * ByteSize \in Nat /\ four * two * ByteSize > 0
  BY <1>1, <1>6
<1>8. \A k \in 0 .. 8 : k = 0 \/ k = 1 \/ k = 2 \/ k = 3 \/ k = 4 \/ k = 5 \/ k = 6
                        \/ k = 7 \/ k = 8
  OBVIOUS
<1>9. \A k \in 0 .. 8 : Weight[k] \in Nat /\ Weight[k] > 0
  BY <1>1, <1>2, <1>3, <1>4, <1>6, <1>7, <1>8
<1>10. /\ Weight[1] = ByteSize * Weight[0] /\ Weight[2] = ByteSize * Weight[1]
       /\ Weight[3] = ByteSize * Weight[2] /\ Weight[4] = ByteSize * Weight[3]
       /\ Weight[5] = ByteSize * Weight[4] /\ Weight[6] = ByteSize * Weight[5]
       /\ Weight[7] = ByteSize * Weight[6] /\ Weight[8] = ByteSize * Weight[7]
  BY <1>1, <1>2, <1>5 DEF two
<1>11. ASSUME NEW k \in 0 .. 7 PROVE Weight[k + 1] = ByteSize * Weight[k]
  <2>1. k = 0 \/ k = 1 \/ k = 2 \/ k = 3 \/ k = 4 \/ k = 5 \/ k = 6 \/ k = 7
    OBVIOUS
  <2>2. QED
    BY <1>10, <2>1
<1>12. QED
  BY <1>2, <1>9, <1>11

-----------------------------------------------------------------------------
(* Numbers and their bytes.                                                *)

\* n consists of less than w, and t units of w.
Splits(n, w, t) == \E lo \in Nat : lo < w /\ n = lo + w * t

\* The parts of such a split.
LEMMA SplitDiv ==
  ASSUME NEW n \in Nat, NEW w \in Nat, NEW t \in Nat, w > 0, Splits(n, w, t)
  PROVE  n \div w = t
<1>1. PICK lo \in Nat : lo < w /\ n = lo + w * t
  BY DEF Splits
<1>2. n \div w \in Int /\ n % w \in Int /\ 0 <= n % w /\ n % w < w
      /\ n = w * (n \div w) + (n % w)
  OBVIOUS
<1>3. PICK q \in Int, r \in Int : q = n \div w /\ r = n % w
  BY <1>2
<1>4. 0 <= r /\ r < w /\ w * q + r = lo + w * t
  BY <1>1, <1>2, <1>3
<1>5. w * (q - t) = lo - r /\ q - t \in Int
  BY <1>4
<1>6. lo - r < w /\ -w < lo - r
  BY <1>1, <1>4
<1>7. PICK e \in Int : e = q - t /\ w * e < w /\ -w < w * e
  BY <1>5, <1>6
<1>8. ~(e >= 1)
  <2>1. e >= 1 => w * e >= w
    OBVIOUS
  <2>2. QED
    BY <1>7, <2>1
<1>9. ~(e <= -1)
  <2>1. e <= -1 => w * e <= -w
    OBVIOUS
  <2>2. QED
    BY <1>7, <2>1
<1>10. QED
  BY <1>3, <1>7, <1>8, <1>9

\* One byte moves from the upper part to the lower.
LEMMA SplitStep ==
  ASSUME NEW n \in Nat, NEW w \in Nat, NEW b \in Nat, NEW x \in Nat, NEW t \in Nat,
         x < b, Splits(n, w, x + b * t)
  PROVE  Splits(n, b * w, t)
<1>1. PICK lo \in Nat : lo < w /\ n = lo + w * (x + b * t)
  BY DEF Splits
<1>2. w * x \in Nat /\ w * x <= w * (b - 1) /\ w * (b - 1) = b * w - w /\ b * w \in Nat
  <2>1. PICK c \in Nat : c = b - 1 /\ x <= c
    OBVIOUS
  <2>2. w * x <= w * c /\ w * x \in Nat
    BY <2>1
  <2>3. w * (b - 1) = b * w - w /\ b * w \in Nat
    OBVIOUS
  <2>4. QED
    BY <2>1, <2>2, <2>3
<1>3. w * (x + b * t) = w * x + (b * w) * t
  OBVIOUS
<1>4. lo + w * x \in Nat /\ lo + w * x < b * w /\ n = (lo + w * x) + (b * w) * t
  BY <1>1, <1>2, <1>3
<1>5. QED
  BY <1>4 DEF Splits

\* t[k] is the number that the bytes from k up make.
Tails(d, t) ==
  /\ t[8] = 0
  /\ \A k \in 0 .. 7 : t[k] = d[k] + ByteSize * t[k + 1]

\* A number splits at every byte.
LEMMA NumberSplits ==
  ASSUME NEW d \in [0 .. 7 -> Byte]
  PROVE  \E t \in [0 .. 8 -> Nat] :
           /\ Tails(d, t) /\ t[0] = Number(d)
           /\ \A k \in 0 .. 8 : Splits(Number(d), Weight[k], t[k])
<1>1. ByteSize \in Nat /\ ByteSize > 1 /\ Byte \subseteq Nat /\ \A x \in Byte : x < ByteSize
  BY MemoryAssumption DEF Byte
<1>2. ASSUME NEW x \in Nat, NEW k \in 0 .. 7
      PROVE  d[k] + ByteSize * x \in Nat
  <2>1. d[k] \in Nat
    BY <1>1
  <2>2. QED
    BY <1>1, <2>1
<1>3. d[7] \in Nat
  <2>1. 7 \in 0 .. 7
    OBVIOUS
  <2>2. d[7] \in Byte
    BY <2>1
  <2>3. QED
    BY <1>1, <2>2
<1>4. PICK t6 \in Nat : t6 = d[6] + ByteSize * d[7]
  BY <1>2, <1>3
<1>5. PICK t5 \in Nat : t5 = d[5] + ByteSize * t6
  BY <1>2
<1>6. PICK t4 \in Nat : t4 = d[4] + ByteSize * t5
  BY <1>2
<1>7. PICK t3 \in Nat : t3 = d[3] + ByteSize * t4
  BY <1>2
<1>8. PICK t2 \in Nat : t2 = d[2] + ByteSize * t3
  BY <1>2
<1>9. PICK t1 \in Nat : t1 = d[1] + ByteSize * t2
  BY <1>2
<1>10. PICK t0 \in Nat : t0 = d[0] + ByteSize * t1
  BY <1>2
<1> DEFINE t == [k \in 0 .. 8 |-> IF k = 0 THEN t0 ELSE IF k = 1 THEN t1 ELSE
                  IF k = 2 THEN t2 ELSE IF k = 3 THEN t3 ELSE IF k = 4 THEN t4 ELSE
                  IF k = 5 THEN t5 ELSE IF k = 6 THEN t6 ELSE IF k = 7 THEN d[7] ELSE 0]
<1>11. /\ t \in [0 .. 8 -> Nat] /\ t[0] = t0 /\ t[1] = t1 /\ t[2] = t2 /\ t[3] = t3
       /\ t[4] = t4 /\ t[5] = t5 /\ t[6] = t6 /\ t[7] = d[7] /\ t[8] = 0
  BY <1>3
<1> HIDE DEF t
<1>12. d[7] = d[7] + ByteSize * 0
  BY <1>1, <1>3
<1>13. Tails(d, t)
  <2>1. ASSUME NEW k \in 0 .. 7 PROVE t[k] = d[k] + ByteSize * t[k + 1]
    <3>1. k = 0 \/ k = 1 \/ k = 2 \/ k = 3 \/ k = 4 \/ k = 5 \/ k = 6 \/ k = 7
      OBVIOUS
    <3>2. QED
      BY <1>4, <1>5, <1>6, <1>7, <1>8, <1>9, <1>10, <1>11, <1>12, <3>1
  <2>2. QED
    BY <1>11, <2>1 DEF Tails
<1>14. t[0] = Number(d)
  BY <1>4, <1>5, <1>6, <1>7, <1>8, <1>9, <1>10, <1>11 DEF Number
<1>15. ASSUME NEW k \in 0 .. 7, Splits(t[0], Weight[k], t[k])
       PROVE  Splits(t[0], Weight[k + 1], t[k + 1])
  <2>1. /\ d[k] \in Nat /\ d[k] < ByteSize /\ t[k + 1] \in Nat /\ Weight[k] \in Nat
        /\ t[0] \in Nat /\ t[k] = d[k] + ByteSize * t[k + 1]
        /\ Weight[k + 1] = ByteSize * Weight[k]
    <3>1. k + 1 \in 0 .. 8 /\ k \in 0 .. 8 /\ 0 \in 0 .. 8
      OBVIOUS
    <3>2. d[k] \in Nat /\ d[k] < ByteSize
      BY <1>1
    <3>3. t[k + 1] \in Nat /\ t[0] \in Nat
      BY <1>11, <3>1
    <3>4. Weight[k] \in Nat /\ Weight[k + 1] = ByteSize * Weight[k]
      BY <3>1, Weights
    <3>5. t[k] = d[k] + ByteSize * t[k + 1]
      BY <1>13 DEF Tails
    <3>6. QED
      BY <3>2, <3>3, <3>4, <3>5
  <2>2. Splits(t[0], Weight[k], d[k] + ByteSize * t[k + 1])
    BY <1>15, <2>1, Zenon
  <2>3. Splits(t[0], ByteSize * Weight[k], t[k + 1])
    BY <1>1, <2>1, <2>2, SplitStep
  <2>4. QED
    BY <2>1, <2>3, Zenon
<1>16. Splits(t[0], Weight[0], t[0])
  <2>1. 0 \in Nat /\ 0 < Weight[0] /\ t[0] = 0 + Weight[0] * t[0]
    BY <1>11, Weights
  <2>2. QED
    BY <2>1 DEF Splits
<1>17. /\ Splits(t[0], Weight[1], t[1]) /\ Splits(t[0], Weight[2], t[2])
       /\ Splits(t[0], Weight[3], t[3]) /\ Splits(t[0], Weight[4], t[4])
       /\ Splits(t[0], Weight[5], t[5]) /\ Splits(t[0], Weight[6], t[6])
       /\ Splits(t[0], Weight[7], t[7]) /\ Splits(t[0], Weight[8], t[8])
  BY <1>15, <1>16
<1>18. ASSUME NEW k \in 0 .. 8 PROVE Splits(t[0], Weight[k], t[k])
  <2>1. k = 0 \/ k = 1 \/ k = 2 \/ k = 3 \/ k = 4 \/ k = 5 \/ k = 6 \/ k = 7 \/ k = 8
    OBVIOUS
  <2>2. QED
    BY <1>16, <1>17, <2>1
<1>19. QED
  BY <1>11, <1>13, <1>14, <1>18

\* What is left of a sum of a byte and units of ByteSize.
LEMMA Remainder ==
  ASSUME NEW b \in Nat, NEW x \in Nat, NEW t \in Nat, x < b
  PROVE  (x + b * t) % b = x
<1>1. \A k \in Nat \ {0} : \A q, r \in Int : 0 <= r /\ r < k => (q * k + r) % k = r
  OBVIOUS
<1>2. x + b * t = t * b + x
  OBVIOUS
<1>3. (t * b + x) % b = x
  BY <1>1
<1>4. QED
  BY <1>2, <1>3

\* Byte k of a number is its digit, and the number is a word.
LEMMA BytesOfNumber ==
  ASSUME NEW d \in [0 .. 7 -> Byte]
  PROVE  /\ Number(d) \in Word
         /\ \A k \in 0 .. 7 : ByteOf(Number(d), k) = d[k]
<1>1. PICK t \in [0 .. 8 -> Nat] :
           /\ Tails(d, t) /\ t[0] = Number(d)
           /\ \A k \in 0 .. 8 : Splits(Number(d), Weight[k], t[k])
  BY NumberSplits
<1>2. Number(d) \in Nat
  <2>1. 0 \in 0 .. 8
    OBVIOUS
  <2>2. QED
    BY <1>1, <2>1
<1>3. Number(d) < Weight[8]
  <2>1. Splits(Number(d), Weight[8], 0)
    <3>1. 8 \in 0 .. 8
      OBVIOUS
    <3>2. QED
      BY <1>1, <3>1 DEF Tails
  <2>2. PICK lo \in Nat : lo < Weight[8] /\ Number(d) = lo + Weight[8] * 0
    BY <2>1 DEF Splits
  <2>3. Weight[8] \in Nat
    BY Weights
  <2>4. QED
    BY <2>2, <2>3
<1>4. ASSUME NEW k \in 0 .. 7
      PROVE  ByteOf(Number(d), k) = d[k]
  <2>1. k \in 0 .. 8 /\ k + 1 \in 0 .. 8
    OBVIOUS
  <2>2. /\ Weight[k] \in Nat /\ Weight[k] > 0 /\ t[k] \in Nat /\ t[k + 1] \in Nat
        /\ Splits(Number(d), Weight[k], t[k])
    BY <1>1, <2>1, Weights
  <2>3. Number(d) \div Weight[k] = t[k]
    BY <1>2, <2>2, SplitDiv
  <2>4. t[k] = d[k] + ByteSize * t[k + 1]
    BY <1>1 DEF Tails
  <2>5. d[k] \in Nat /\ d[k] < ByteSize /\ ByteSize \in Nat /\ ByteSize > 0
    <3>1. d[k] \in Byte
      OBVIOUS
    <3>2. QED
      BY <3>1, MemoryAssumption DEF Byte
  <2>6. (d[k] + ByteSize * t[k + 1]) % ByteSize = d[k]
    BY <2>2, <2>5, Remainder
  <2>7. QED
    BY <2>3, <2>4, <2>6 DEF ByteOf
<1>5. AddrSpace = Weight[8]
  BY MemoryAssumption
<1>6. Number(d) \in Word
  BY <1>2, <1>3, <1>5, WordAssumption DEF Word
<1>7. QED
  BY <1>4, <1>6

\* Every byte of a word is a byte.
LEMMA ByteType ==
  ASSUME NEW v \in Word, NEW k \in 0 .. 7
  PROVE  ByteOf(v, k) \in Byte
<1>1. Weight[k] \in Nat /\ Weight[k] > 0 /\ v \in Nat
  BY Weights, WordAssumption DEF Word
<1>2. PICK q \in Int : q = v \div Weight[k]
  BY <1>1
<1>3. ByteSize \in Nat /\ ByteSize > 0
  BY MemoryAssumption
<1>4. q % ByteSize \in 0 .. (ByteSize - 1)
  BY <1>2, <1>3
<1>5. QED
  BY <1>2, <1>4 DEF ByteOf, Byte

-----------------------------------------------------------------------------
(* Sign extension.                                                         *)

\* The arithmetic of the sign bit, for an even number of byte values.
LEMMA SignBit ==
  ASSUME NEW b \in Nat, b % 2 = 0, NEW w \in Nat, NEW x \in Nat, NEW lo \in Nat,
         lo < w, x < b
  PROVE  /\ lo + w * x < b * w
         /\ 2 * (lo + w * x) >= b * w <=> 2 * x >= b
<1>1. PICK c \in Nat : b = 2 * c
  <2>1. b = 2 * (b \div 2) /\ b \div 2 \in Nat
    OBVIOUS
  <2>2. QED
    BY <2>1
<1>2. w * x \in Nat /\ w * c \in Nat /\ b * w = 2 * (w * c)
  BY <1>1
<1>3. x >= c => w * x >= w * c
  BY <1>1
<1>4. x < c => w * x + w <= w * c
  <2>1. x < c => w * (x + 1) <= w * c
    OBVIOUS
  <2>2. w * (x + 1) = w * x + w
    OBVIOUS
  <2>3. QED
    BY <2>1, <2>2
<1>5. w * x + w <= b * w
  <2>1. w * (x + 1) <= w * b
    OBVIOUS
  <2>2. w * (x + 1) = w * x + w /\ w * b = b * w
    OBVIOUS
  <2>3. QED
    BY <2>1, <2>2
<1>6. lo + w * x < b * w
  <2>1. b * w \in Nat
    OBVIOUS
  <2>2. QED
    BY <1>2, <1>5, <2>1
<1>7. CASE x >= c
  <2>1. 2 * x >= b
    BY <1>1, <1>7
  <2>2. 2 * (lo + w * x) >= b * w
    BY <1>2, <1>3, <1>7
  <2>3. QED
    BY <1>6, <2>1, <2>2
<1>8. CASE x < c
  <2>1. ~(2 * x >= b)
    BY <1>1, <1>8
  <2>2. 2 * (lo + w * x) < 2 * (w * c)
    BY <1>2, <1>4, <1>8
  <2>3. ~(2 * (lo + w * x) >= b * w)
    BY <1>2, <2>2
  <2>4. QED
    BY <1>6, <2>1, <2>3
<1>9. QED
  BY <1>1, <1>7, <1>8

\* The fill of a sign-extended value of n bytes.
Filled(d, n, c) == [k \in 0 .. 7 |-> IF k < n THEN d[k] ELSE c]

\* A value of n bytes is less than Weight[n], and half of that or more exactly
\* when its highest byte is half of ByteSize or more.
LEMMA HighestByte ==
  ASSUME NEW d \in [0 .. 7 -> Byte], NEW n \in {1, 2, 4, 8},
         \A k \in 0 .. 7 : k >= n => d[k] = 0
  PROVE  /\ Number(d) < Weight[n]
         /\ 2 * Number(d) >= Weight[n] <=> 2 * d[n - 1] >= ByteSize
<1>1. PICK t \in [0 .. 8 -> Nat] :
           /\ Tails(d, t) /\ t[0] = Number(d)
           /\ \A k \in 0 .. 8 : Splits(Number(d), Weight[k], t[k])
  BY NumberSplits
<1>2. ByteSize \in Nat /\ ByteSize > 1 /\ ByteSize % 2 = 0
  BY MemoryAssumption
<1>3. t[n] = 0
  <2>1. ASSUME NEW k \in 0 .. 7, k >= n, t[k + 1] = 0 PROVE t[k] = 0
    <3>1. t[k] = 0 + ByteSize * 0
      BY <1>1, <2>1 DEF Tails
    <3>2. QED
      BY <1>2, <3>1
  <2>2. t[8] = 0
    BY <1>1 DEF Tails
  <2>3. CASE n = 8
    BY <2>2, <2>3
  <2>4. n <= 4 => t[7] = 0 /\ t[6] = 0 /\ t[5] = 0 /\ t[4] = 0
    BY <2>1, <2>2
  <2>5. n <= 2 => t[3] = 0 /\ t[2] = 0
    BY <2>1, <2>4
  <2>6. n <= 1 => t[1] = 0
    BY <2>1, <2>5
  <2>7. QED
    BY <2>3, <2>4, <2>5, <2>6
<1>4. PICK w \in Nat, x \in Nat, lo \in Nat :
        /\ w = Weight[n - 1] /\ x = d[n - 1] /\ Weight[n] = ByteSize * w
        /\ lo < w /\ Number(d) = lo + w * x /\ x < ByteSize
  <2>1. n - 1 \in 0 .. 7 /\ n - 1 \in 0 .. 8 /\ (n - 1) + 1 = n
    OBVIOUS
  <2>2. Weight[n - 1] \in Nat /\ Weight[n] = ByteSize * Weight[n - 1]
    BY <2>1, Weights
  <2>3. d[n - 1] \in Nat /\ d[n - 1] < ByteSize
    <3>1. d[n - 1] \in Byte
      BY <2>1
    <3>2. QED
      BY <3>1, <1>2 DEF Byte
  <2>4. t[n - 1] = d[n - 1]
    <3>1. t[n - 1] = d[n - 1] + ByteSize * 0
      BY <1>1, <1>3, <2>1 DEF Tails
    <3>2. QED
      BY <1>2, <2>3, <3>1
  <2>5. Splits(Number(d), Weight[n - 1], d[n - 1])
    BY <1>1, <2>1, <2>4
  <2>6. QED
    BY <2>2, <2>3, <2>5 DEF Splits
<1>5. /\ lo + w * x < ByteSize * w
      /\ 2 * (lo + w * x) >= ByteSize * w <=> 2 * x >= ByteSize
  <2>1. lo < w /\ x < ByteSize
    BY <1>4
  <2>2. QED
    BY <1>2, <2>1, SignBit
<1>6. QED
  BY <1>4, <1>5

\* One step of the sum in OnesAbove, at a byte of the value and above it.
LEMMA OnesStep ==
  ASSUME NEW b \in Nat, NEW e \in Nat, NEW p \in Nat, NEW q \in Nat, NEW g \in Nat,
         NEW h \in Nat, p + g = q + h
  PROVE  (e + b * p) + b * g = (e + b * q) + b * h
<1>1. b * (p + g) = b * (q + h)
  OBVIOUS
<1>2. b * (p + g) = b * p + b * g /\ b * (q + h) = b * q + b * h
  OBVIOUS
<1>3. PICK x \in Nat, y \in Nat, z \in Nat, u \in Nat :
        x = b * p /\ y = b * g /\ z = b * q /\ u = b * h
  OBVIOUS
<1>4. x + y = z + u
  BY <1>1, <1>2, <1>3
<1>5. QED
  BY <1>3, <1>4

\* Filling the bytes from n up with the highest byte adds Weight[8] - Weight[n].
LEMMA OnesAbove ==
  ASSUME NEW d \in [0 .. 7 -> Byte], NEW n \in {1, 2, 4, 8},
         \A k \in 0 .. 7 : k >= n => d[k] = 0
  PROVE  Number(Filled(d, n, ByteSize - 1)) + Weight[n] = Number(d) + Weight[8]
<1> DEFINE f == Filled(d, n, ByteSize - 1)
           G(k) == IF k < n THEN Weight[n - k] ELSE 1
<1>1. ByteSize \in Nat /\ ByteSize > 1 /\ ByteSize - 1 \in Byte
  BY MemoryAssumption DEF Byte
<1>2. f \in [0 .. 7 -> Byte]
  BY <1>1 DEF Filled
<1>3. \A k \in 0 .. 7 : f[k] = IF k < n THEN d[k] ELSE ByteSize - 1
  BY DEF Filled
<1> HIDE DEF f
<1>4. PICK t \in [0 .. 8 -> Nat] : Tails(d, t) /\ t[0] = Number(d)
  BY NumberSplits
<1>5. PICK u \in [0 .. 8 -> Nat] : Tails(f, u) /\ u[0] = Number(f)
  BY <1>2, NumberSplits
<1>6. ASSUME NEW k \in 0 .. 7
      PROVE  /\ d[k] \in Nat /\ t[k + 1] \in Nat /\ u[k + 1] \in Nat
             /\ t[k] = d[k] + ByteSize * t[k + 1] /\ u[k] = f[k] + ByteSize * u[k + 1]
             /\ Weight[7 - k] \in Nat /\ Weight[8 - k] = ByteSize * Weight[7 - k]
  <2>1. k + 1 \in 0 .. 8 /\ 7 - k \in 0 .. 7 /\ 7 - k \in 0 .. 8 /\ (7 - k) + 1 = 8 - k
    OBVIOUS
  <2>2. d[k] \in Nat
    BY <1>1 DEF Byte
  <2>3. t[k + 1] \in Nat /\ u[k + 1] \in Nat
    BY <2>1
  <2>4. t[k] = d[k] + ByteSize * t[k + 1] /\ u[k] = f[k] + ByteSize * u[k + 1]
    BY <1>4, <1>5 DEF Tails
  <2>5. Weight[7 - k] \in Nat /\ Weight[8 - k] = ByteSize * Weight[7 - k]
    BY <2>1, Weights
  <2>6. QED
    BY <2>2, <2>3, <2>4, <2>5
<1>7. ASSUME NEW k \in 0 .. 7
      PROVE  /\ G(k + 1) \in Nat
             /\ k < n => G(k) = ByteSize * G(k + 1)
             /\ k >= n => G(k) = 1 /\ G(k + 1) = 1
  <2>1. CASE k < n
    <3>1. n - (k + 1) \in 0 .. 7 /\ n - (k + 1) \in 0 .. 8 /\ (n - (k + 1)) + 1 = n - k
      BY <2>1
    <3>2. /\ Weight[n - (k + 1)] \in Nat /\ Weight[0] = 1
          /\ Weight[n - k] = ByteSize * Weight[n - (k + 1)]
      BY <3>1, Weights
    <3>3. G(k + 1) = Weight[n - (k + 1)]
      <4>1. CASE k + 1 < n
        BY <4>1
      <4>2. CASE k + 1 = n
        <5>1. n - (k + 1) = 0
          BY <4>2
        <5>2. QED
          BY <3>2, <4>2, <5>1
      <4>3. QED
        BY <2>1, <4>1, <4>2
    <3>4. G(k) = Weight[n - k]
      BY <2>1
    <3>5. QED
      BY <2>1, <3>2, <3>3, <3>4
  <2>2. CASE k >= n
    BY <2>2
  <2>3. QED
    BY <2>1, <2>2
<1>8. ASSUME NEW k \in 0 .. 7, u[k + 1] + G(k + 1) = t[k + 1] + Weight[7 - k]
      PROVE  u[k] + G(k) = t[k] + Weight[8 - k]
  <2> HIDE DEF G
  <2>1. PICK p \in Nat, q \in Nat, g \in Nat, h \in Nat, e \in Nat :
          /\ p = u[k + 1] /\ q = t[k + 1] /\ g = G(k + 1) /\ h = Weight[7 - k]
          /\ e = d[k]
    BY <1>6, <1>7
  <2>2. p + g = q + h
    BY <1>8, <2>1
  <2>3. t[k] = e + ByteSize * q /\ Weight[8 - k] = ByteSize * h
    BY <1>6, <2>1
  <2>4. (e + ByteSize * p) + ByteSize * g = (e + ByteSize * q) + ByteSize * h
    BY <1>1, <2>2, OnesStep
  <2>5. CASE k < n
    <3>1. u[k] = e + ByteSize * p
      BY <1>3, <1>6, <2>1, <2>5
    <3>2. G(k) = ByteSize * g
      BY <1>7, <2>1, <2>5
    <3>3. QED
      BY <2>3, <2>4, <3>1, <3>2
  <2>6. CASE k >= n
    <3>1. u[k] = (ByteSize - 1) + ByteSize * p /\ e = 0
      BY <1>3, <1>6, <2>1, <2>6
    <3>2. G(k) = 1 /\ ByteSize * g = ByteSize
      BY <1>1, <1>7, <2>1, <2>6
    <3>3. PICK x \in Nat, y \in Nat, z \in Nat :
            x = ByteSize * p /\ y = ByteSize * q /\ z = ByteSize * h
      BY <1>1
    <3>4. QED
      BY <1>1, <2>3, <2>4, <3>1, <3>2, <3>3
  <2>7. QED
    BY <2>5, <2>6
<1>9. u[8] + G(8) = t[8] + Weight[0]
  <2>1. u[8] = 0 /\ t[8] = 0
    BY <1>4, <1>5 DEF Tails
  <2>2. QED
    BY <2>1, Weights
<1> HIDE DEF G
<1>10. u[7] + G(7) = t[7] + Weight[1]
  <2>1. 7 \in 0 .. 7 /\ 7 + 1 = 8 /\ 7 - 7 = 0 /\ 8 - 7 = 1
    OBVIOUS
  <2>2. u[7 + 1] + G(7 + 1) = t[7 + 1] + Weight[7 - 7]
    BY <1>9, <2>1
  <2>3. u[7] + G(7) = t[7] + Weight[8 - 7]
    BY <1>8, <2>1, <2>2
  <2>4. QED
    BY <2>1, <2>3
<1>11. u[6] + G(6) = t[6] + Weight[2]
  BY <1>8, <1>10
<1>12. u[5] + G(5) = t[5] + Weight[3]
  BY <1>8, <1>11
<1>13. u[4] + G(4) = t[4] + Weight[4]
  BY <1>8, <1>12
<1>14. u[3] + G(3) = t[3] + Weight[5]
  BY <1>8, <1>13
<1>15. u[2] + G(2) = t[2] + Weight[6]
  BY <1>8, <1>14
<1>16. u[1] + G(1) = t[1] + Weight[7]
  BY <1>8, <1>15
<1>17. u[0] + G(0) = t[0] + Weight[8]
  BY <1>8, <1>16
<1>18. G(0) = Weight[n]
  BY DEF G
<1>19. QED
  BY <1>4, <1>5, <1>17, <1>18 DEF f

\* Extended keeps the n bytes of its value and repeats the sign above them.
LEMMA ExtendedBytes ==
  ASSUME NEW d \in [0 .. 7 -> Byte], NEW n \in {1, 2, 4, 8}, NEW signed \in BOOLEAN,
         \A k \in 0 .. 7 : k >= n => d[k] = 0
  PROVE  \A k \in 0 .. 7 : ByteOf(Extended(Number(d), n, signed), k) =
           IF k < n THEN d[k]
           ELSE IF signed /\ 2 * d[n - 1] >= ByteSize THEN ByteSize - 1 ELSE 0
<1>1. /\ Number(d) < Weight[n] /\ Number(d) \in Word
      /\ 2 * Number(d) >= Weight[n] <=> 2 * d[n - 1] >= ByteSize
      /\ \A k \in 0 .. 7 : ByteOf(Number(d), k) = d[k]
  BY HighestByte, BytesOfNumber
<1>2. CASE signed /\ 2 * d[n - 1] >= ByteSize
  <2> DEFINE f == Filled(d, n, ByteSize - 1)
  <2>1. f \in [0 .. 7 -> Byte] /\ \A k \in 0 .. 7 : f[k] = IF k < n THEN d[k] ELSE ByteSize - 1
    BY MemoryAssumption DEF Filled, Byte
  <2>2. Number(f) + Weight[n] = Number(d) + Weight[8]
    BY OnesAbove
  <2> HIDE DEF f
  <2>3. Number(f) \in Word /\ \A k \in 0 .. 7 : ByteOf(Number(f), k) = f[k]
    BY <2>1, BytesOfNumber
  <2>4. PICK x \in Nat, y \in Nat, w \in Nat :
          x = Number(d) /\ y = Number(f) /\ w = Weight[n]
    <3>1. Weight[n] \in Nat
      BY Weights
    <3>2. QED
      BY <1>1, <2>3, <3>1, WordAssumption DEF Word
  <2>5. y + w = x + AddrSpace /\ x < w /\ y < AddrSpace
    <3>1. AddrSpace = Weight[8]
      BY MemoryAssumption
    <3>2. y < AddrSpace
      BY <2>3, <2>4, WordAssumption DEF Word
    <3>3. QED
      BY <1>1, <2>2, <2>4, <3>1, <3>2
  <2>6. -AddrSpace <= x - w /\ x - w < 0 /\ x - w \in Int /\ (x - w) + AddrSpace = y
    BY <2>5, WordAssumption
  <2>7. Wrap(x - w) = y
    BY <2>6, WrapWord
  <2>8. Extended(Number(d), n, signed) = Number(f)
    BY <1>1, <1>2, <2>4, <2>7 DEF Extended
  <2>9. QED
    BY <1>2, <2>1, <2>3, <2>8
<1>3. CASE ~(signed /\ 2 * d[n - 1] >= ByteSize)
  BY <1>1, <1>3 DEF Extended
<1>4. QED
  BY <1>2, <1>3

-----------------------------------------------------------------------------
(* Addresses.                                                              *)

\* What a multiple of the address space adds is lost.
LEMMA WrapShift ==
  \A q, r \in Int : Wrap(q * AddrSpace + r) = Wrap(r)
<1> SUFFICES ASSUME NEW q \in Int, NEW r \in Int
             PROVE  Wrap(q * AddrSpace + r) = Wrap(r)
  OBVIOUS
<1>1. PICK M \in Nat \ {0} : M = AddrSpace
  BY WordAssumption
<1>2. \A k \in Nat \ {0} : \A i, j \in Int : 0 <= j /\ j < k => (i * k + j) % k = j
  OBVIOUS
<1>3. PICK i \in Int, j \in Int : i = r \div M /\ j = r % M
  OBVIOUS
<1>4. r = M * (r \div M) + (r % M) /\ 0 <= r % M /\ r % M < M
  OBVIOUS
<1>5. r = M * i + j /\ 0 <= j /\ j < M
  BY <1>3, <1>4
<1>6. q * M + r = (q + i) * M + j /\ q + i \in Int
  BY <1>5
<1>7. ((q + i) * M + j) % M = j
  BY <1>2, <1>5, <1>6
<1>8. QED
  BY <1>1, <1>3, <1>6, <1>7 DEF Wrap

\* A word that stands in a sum may as well be taken before it is wrapped.
LEMMA WrapSum ==
  \A x, y \in Int : Wrap(Wrap(x) + y) = Wrap(x + y)
<1> SUFFICES ASSUME NEW x \in Int, NEW y \in Int
             PROVE  Wrap(Wrap(x) + y) = Wrap(x + y)
  OBVIOUS
<1>1. PICK M \in Nat \ {0} : M = AddrSpace
  BY WordAssumption
<1>2. PICK q \in Int, r \in Int : q = x \div M /\ r = x % M
  OBVIOUS
<1>3. x = M * (x \div M) + (x % M)
  OBVIOUS
<1>4. x + y = q * M + (r + y) /\ r + y \in Int
  BY <1>2, <1>3
<1>5. Wrap(q * M + (r + y)) = Wrap(r + y)
  BY <1>1, <1>4, WrapShift
<1>6. r = Wrap(x)
  BY <1>1, <1>2 DEF Wrap
<1>7. QED
  BY <1>4, <1>5, <1>6

\* The bytes of an access have consecutive guest addresses.
LEMMA NextByte ==
  ASSUME NEW a \in Word, NEW k \in Nat, TO_HOST(a) + k \in Word
  PROVE  TO_HOST(Wrap(a + k)) = TO_HOST(a) + k
<1>1. a \in Int /\ GuestOffset \in Int
  BY WordAssumption, MemoryAssumption DEF Word
<1>2. TO_HOST(Wrap(a + k)) = Wrap((a + k) + GuestOffset)
  BY <1>1, WrapSum DEF TO_HOST
<1>3. Wrap(TO_HOST(a) + k) = Wrap((a + GuestOffset) + k)
  BY <1>1, WrapSum DEF TO_HOST
<1>4. (a + k) + GuestOffset = (a + GuestOffset) + k
  BY <1>1
<1>5. QED
  BY <1>2, <1>3, <1>4, WrapWord

\* Two guest addresses are as far apart as their host addresses.
LEMMA SameDistance ==
  ASSUME NEW a \in Word, NEW g \in Word
  PROVE  /\ Wrap(TO_HOST(g) - TO_HOST(a)) = Wrap(g - a)
         /\ Wrap(a + Wrap(g - a)) = g
<1>1. a \in Int /\ g \in Int /\ GuestOffset \in Int
  BY WordAssumption, MemoryAssumption DEF Word
<1>2. PICK h \in Int : h = TO_HOST(a)
  <2>1. TO_HOST(a) \in Word
    BY <1>1, WrapWord DEF TO_HOST
  <2>2. QED
    BY <2>1, WordAssumption DEF Word
<1>3. Wrap(TO_HOST(g) - h) = Wrap(g + GuestOffset - h)
  <2>1. Wrap(Wrap(g + GuestOffset) + (-h)) = Wrap((g + GuestOffset) + (-h))
    BY <1>1, WrapSum
  <2>2. Wrap(g + GuestOffset) \in Int
    BY <1>1, WrapWord, WordAssumption DEF Word
  <2>3. /\ Wrap(g + GuestOffset) + (-h) = Wrap(g + GuestOffset) - h
        /\ (g + GuestOffset) + (-h) = g + GuestOffset - h
    BY <1>1, <2>2
  <2>4. QED
    BY <2>1, <2>3 DEF TO_HOST
<1>4. PICK q \in Int : a + GuestOffset = q * AddrSpace + h
  <2>1. PICK M \in Nat \ {0} : M = AddrSpace
    BY WordAssumption
  <2>2. PICK x \in Int : x = a + GuestOffset
    BY <1>1
  <2>3. x = M * (x \div M) + (x % M) /\ x \div M \in Int
    OBVIOUS
  <2>4. x = (x \div M) * M + h
    <3>1. x % M = h
      BY <1>2, <2>1, <2>2 DEF TO_HOST, Wrap
    <3>2. PICK i \in Int : i = x \div M
      BY <2>3
    <3>3. x = M * i + h
      BY <2>3, <3>1, <3>2
    <3>4. x = i * M + h
      BY <3>3
    <3>5. QED
      BY <3>2, <3>4
  <2>5. QED
    BY <2>1, <2>2, <2>3, <2>4
<1>5. g + GuestOffset - h = q * AddrSpace + (g - a) /\ g - a \in Int
  <2>1. PICK m \in Int : m = q * AddrSpace
    BY WordAssumption
  <2>2. QED
    BY <1>1, <1>4, <2>1
<1>6. Wrap(g + GuestOffset - h) = Wrap(g - a)
  BY <1>5, WrapShift
<1>7. Wrap(Wrap(g - a) + a) = Wrap((g - a) + a)
  BY <1>1, WrapSum
<1>8. (g - a) + a = g /\ Wrap(g - a) + a = a + Wrap(g - a)
  <2>1. Wrap(g - a) \in Int
    BY <1>1, WrapWord, WordAssumption DEF Word
  <2>2. QED
    BY <1>1, <2>1
<1>9. QED
  BY <1>2, <1>3, <1>6, <1>7, <1>8, WrapWord

\* An access touches the byte at g exactly when g is less than n bytes above
\* its address, and finds it that far in.
LEMMA TouchedBytes ==
  ASSUME NEW a \in Word, NEW g \in Word, NEW n \in Nat, Touched(a, n) \subseteq Word
  PROVE  /\ TO_HOST(g) \in Touched(a, n) <=> Wrap(g - a) < n
         /\ TO_HOST(g) \in Touched(a, n) => TO_HOST(g) - TO_HOST(a) = Wrap(g - a)
<1>1. TO_HOST(a) \in Nat /\ Wrap(g - a) \in Nat
  <2>1. a + GuestOffset \in Int /\ g - a \in Int
    BY WordAssumption, MemoryAssumption DEF Word
  <2>2. QED
    BY <2>1, WrapWord, WordAssumption DEF TO_HOST, Word
<1>2. ASSUME TO_HOST(g) \in Touched(a, n)
      PROVE  Wrap(g - a) < n /\ TO_HOST(g) - TO_HOST(a) = Wrap(g - a)
  <2>1. PICK k \in 0 .. (n - 1) : TO_HOST(g) = TO_HOST(a) + k
    BY <1>2 DEF Touched
  <2>2. k \in Nat /\ k < n /\ TO_HOST(a) + k \in Word
    BY <1>2, <2>1
  <2>3. k \in Word
    BY <1>1, <2>2, WordAssumption DEF Word
  <2>4. TO_HOST(g) - TO_HOST(a) = k
    BY <1>1, <2>1, <2>2
  <2>5. QED
    BY <2>2, <2>3, <2>4, SameDistance, WrapWord
<1>3. ASSUME Wrap(g - a) < n
      PROVE  TO_HOST(g) \in Touched(a, n)
  <2>1. TO_HOST(a) + Wrap(g - a) \in Touched(a, n)
    BY <1>1, <1>3 DEF Touched
  <2>2. TO_HOST(Wrap(a + Wrap(g - a))) = TO_HOST(a) + Wrap(g - a)
    BY <1>1, <2>1, NextByte
  <2>3. QED
    BY <2>1, <2>2, SameDistance
<1>4. QED
  BY <1>2, <1>3

-----------------------------------------------------------------------------
(* The last store to a byte.                                               *)

Stored == [op : DOMAIN Store, addr : Word, value : Word]

\* The stores of s that cover the guest address g, and the last of them.
Covering(s, g) == {j \in DOMAIN s : Wrap(g - s[j].addr) < Size[s[j].op]}
Latest(s, g) == CHOOSE j \in Covering(s, g) : \A i \in Covering(s, g) : i <= j

\* LastStored, as an operator of the stores made.
LastIn(s, g) ==
  IF Covering(s, g) = {} THEN 0
  ELSE ByteOf(s[Latest(s, g)].value, Wrap(g - s[Latest(s, g)].addr))

\* There is a last one among the stores that cover a byte.
HasLatest(s, g) ==
  Covering(s, g) # {} =>
    \E j \in Covering(s, g) : \A i \in Covering(s, g) : i <= j

\* The sizes the code uses are those of the architecture.
LEMMA StoreSizes ==
  /\ \A op \in DOMAIN Store : Store[op] \in {1, 2, 4, 8} /\ Store[op] = Size[op]
  /\ \A op \in DOMAIN Load : Load[op] \in {1, 2, 4, 8} /\ Load[op] = Size[op]
  /\ \A op \in DOMAIN Load : op \in SignedLoad <=> op \notin {"lbu", "lhu", "lwu"}
BY DEF Store, Load, Size, SignedLoad

\* A new store is the last one to the bytes it covers and changes no other.
LEMMA AppendStored ==
  ASSUME NEW s \in Seq(Stored), NEW e \in Stored, NEW g \in Word, HasLatest(s, g)
  PROVE  /\ HasLatest(Append(s, e), g)
         /\ LastIn(Append(s, e), g) =
              IF Wrap(g - e.addr) < Size[e.op] THEN ByteOf(e.value, Wrap(g - e.addr))
              ELSE LastIn(s, g)
<1> DEFINE r == Append(s, e)
           m == Len(s) + 1
<1>1. Len(s) \in Nat /\ DOMAIN s = 1 .. Len(s) /\ DOMAIN r = 1 .. m /\ r[m] = e
      /\ m \in Nat /\ m \notin DOMAIN s /\ \A j \in DOMAIN s : r[j] = s[j] /\ j < m /\ j \in Int
  OBVIOUS
<1> HIDE DEF r, m
<1>2. DOMAIN r = DOMAIN s \cup {m}
  BY <1>1 DEF m
<1>3. CASE Wrap(g - e.addr) < Size[e.op]
  <2>1. m \in Covering(r, g) /\ \A i \in Covering(r, g) : i <= m
    <3>1. m \in DOMAIN r /\ r[m] = e
      BY <1>1, <1>2
    <3>2. m \in Covering(r, g)
      BY <1>3, <3>1 DEF Covering
    <3>3. \A i \in DOMAIN r : i <= m
      BY <1>1
    <3>4. QED
      BY <3>2, <3>3 DEF Covering
  <2>2. \A j \in Covering(r, g) : (\A i \in Covering(r, g) : i <= j) => j = m
    <3>1. \A j \in Covering(r, g) : j \in Int /\ j <= m
      BY <1>1, <1>2 DEF Covering
    <3>2. QED
      BY <1>1, <2>1, <3>1
  <2>3. Latest(r, g) = m
    BY <2>1, <2>2 DEF Latest
  <2>4. QED
    BY <1>1, <1>3, <2>1, <2>3 DEF HasLatest, LastIn, r
<1>4. CASE ~(Wrap(g - e.addr) < Size[e.op])
  <2>1. Covering(r, g) = Covering(s, g)
    BY <1>1, <1>2, <1>4 DEF Covering
  <2>2. HasLatest(r, g) /\ Latest(r, g) = Latest(s, g)
    BY <2>1 DEF HasLatest, Latest
  <2>3. Covering(s, g) # {} => r[Latest(s, g)] = s[Latest(s, g)]
    <3>1. Covering(s, g) # {} => Latest(s, g) \in Covering(s, g)
      BY DEF HasLatest, Latest
    <3>2. QED
      BY <1>1, <3>1 DEF Covering
  <2>4. LastIn(r, g) = LastIn(s, g)
    BY <2>1, <2>2, <2>3 DEF LastIn
  <2>5. QED
    BY <1>4, <2>2, <2>4 DEF r
<1>5. QED
  BY <1>3, <1>4

-----------------------------------------------------------------------------
(* Loads and stores.                                                       *)

MemTypeOK ==
  /\ mem \in [HostBytes -> Byte]
  /\ log \in Seq(Stored)

\* Each mapped byte holds what the last store to it has left.
MemoryAgrees ==
  \A g \in Word :
    /\ HasLatest(log, g)
    /\ TO_HOST(g) \in HostBytes => mem[TO_HOST(g)] = LastIn(log, g)

MemoryInv == MemTypeOK /\ MemoryAgrees /\ LoadsSeeStores

\* The property's LastStored is LastIn of the stores made so far.
LEMMA LastStoredIn ==
  \A g \in Word : LastStored(g) = LastIn(log, g)
BY DEF LastStored, LastIn, Latest, Covering

\* The store handlers keep the invariant.
LEMMA StoreAgrees ==
  ASSUME MemoryInv, NEW op \in DOMAIN Store, NEW a \in Word, NEW v \in Word,
         func_store(op, a, v)
  PROVE  MemoryInv'
<1> DEFINE e == [op |-> op, addr |-> a, value |-> v]
           n == Store[op]
<1>1. /\ e \in Stored /\ e.op = op /\ e.addr = a /\ e.value = v
      /\ log \in Seq(Stored) /\ log' = Append(log, e)
  BY DEF MemoryInv, MemTypeOK, Stored, func_store
<1>2. n \in 1 .. 8 /\ n \in Nat /\ n = Size[op]
  BY StoreSizes
<1>3. /\ Touched(a, n) \subseteq HostBytes /\ Touched(a, n) \subseteq Word
      /\ mem' = [h \in HostBytes |->
                   IF h \in Touched(a, n) THEN ByteOf(v, h - TO_HOST(a)) ELSE mem[h]]
  BY MemoryAssumption DEF func_store
<1>4. ctl' = "run"
  BY DEF func_store
<1> HIDE DEF e, n
<1>5. MemTypeOK'
  <2>1. log' \in Seq(Stored)
    BY <1>1
  <2>2. ASSUME NEW h \in HostBytes, h \in Touched(a, n)
        PROVE  ByteOf(v, h - TO_HOST(a)) \in Byte
    <3>1. PICK k \in 0 .. (n - 1) : h = TO_HOST(a) + k
      BY <2>2 DEF Touched
    <3>2. TO_HOST(a) \in Int
      <4>1. TO_HOST(a) \in Word
        BY WordAssumption, MemoryAssumption, WrapWord DEF TO_HOST, Word
      <4>2. QED
        BY <4>1, WordAssumption DEF Word
    <3>3. h - TO_HOST(a) \in 0 .. 7
      BY <1>2, <3>1, <3>2
    <3>4. QED
      BY <3>3, ByteType
  <2>3. mem \in [HostBytes -> Byte]
    BY DEF MemoryInv, MemTypeOK
  <2>4. mem' \in [HostBytes -> Byte]
    BY <1>3, <2>2, <2>3
  <2>5. QED
    BY <2>1, <2>4 DEF MemTypeOK
<1>6. MemoryAgrees'
  <2>1. ASSUME NEW g \in Word
        PROVE  /\ HasLatest(log', g)
               /\ TO_HOST(g) \in HostBytes => mem'[TO_HOST(g)] = LastIn(log', g)
    <3>1. HasLatest(log, g) /\ (TO_HOST(g) \in HostBytes => mem[TO_HOST(g)] = LastIn(log, g))
      BY DEF MemoryInv, MemoryAgrees
    <3>2. /\ HasLatest(log', g)
          /\ LastIn(log', g) = IF Wrap(g - a) < n THEN ByteOf(v, Wrap(g - a)) ELSE LastIn(log, g)
      <4>1. /\ HasLatest(Append(log, e), g)
            /\ LastIn(Append(log, e), g) =
                 IF Wrap(g - e.addr) < Size[e.op] THEN ByteOf(e.value, Wrap(g - e.addr))
                 ELSE LastIn(log, g)
        BY <1>1, <3>1, AppendStored
      <4>2. QED
        BY <1>1, <1>2, <4>1
    <3>3. /\ TO_HOST(g) \in Touched(a, n) <=> Wrap(g - a) < n
          /\ TO_HOST(g) \in Touched(a, n) => TO_HOST(g) - TO_HOST(a) = Wrap(g - a)
      BY <1>2, <1>3, TouchedBytes
    <3>4. TO_HOST(g) \in HostBytes => mem'[TO_HOST(g)] = LastIn(log', g)
      <4>1. CASE TO_HOST(g) \in Touched(a, n)
        <5>1. LastIn(log', g) = ByteOf(v, Wrap(g - a))
          BY <3>2, <3>3, <4>1
        <5>2. TO_HOST(g) \in HostBytes => mem'[TO_HOST(g)] = ByteOf(v, TO_HOST(g) - TO_HOST(a))
          BY <1>3, <4>1
        <5>3. QED
          BY <3>3, <4>1, <5>1, <5>2
      <4>2. CASE TO_HOST(g) \notin Touched(a, n)
        <5>1. LastIn(log', g) = LastIn(log, g)
          BY <3>2, <3>3, <4>2
        <5>2. TO_HOST(g) \in HostBytes => mem'[TO_HOST(g)] = mem[TO_HOST(g)]
          BY <1>3, <4>2
        <5>3. QED
          BY <3>1, <5>1, <5>2
      <4>3. QED
        BY <4>1, <4>2
    <3>5. QED
      BY <3>2, <3>4
  <2>2. QED
    BY <2>1 DEF MemoryAgrees, HasLatest, LastIn, Latest, Covering, TO_HOST
<1>7. LoadsSeeStores'
  BY <1>4 DEF LoadsSeeStores
<1>8. QED
  BY <1>5, <1>6, <1>7 DEF MemoryInv

\* The load handlers return what the stores left.
LEMMA LoadAgrees ==
  ASSUME MemoryInv, NEW op \in DOMAIN Load, NEW a \in Word, func_load(op, a)
  PROVE  MemoryInv'
<1> DEFINE n == Load[op]
           d == [k \in 0 .. 7 |-> IF k < n THEN mem[TO_HOST(a) + k] ELSE 0]
           signed == op \in SignedLoad
           L(g) == LastIn(log, g)
<1>1. /\ n \in {1, 2, 4, 8} /\ n = Size[op]
      /\ signed \in BOOLEAN /\ (signed <=> op \notin {"lbu", "lhu", "lwu"})
  BY StoreSizes
<1>2. /\ Touched(a, n) \subseteq HostBytes /\ load'.op = op /\ load'.addr = a
      /\ rd' = Extended(Number(d), n, signed) /\ mem' = mem /\ log' = log
  BY DEF func_load, Fetched
<1>3. mem \in [HostBytes -> Byte] /\ log \in Seq(Stored)
  BY DEF MemoryInv, MemTypeOK
<1>4. ASSUME NEW k \in 0 .. 7, k < n
      PROVE  TO_HOST(a) + k \in HostBytes /\ mem[TO_HOST(a) + k] = L(Wrap(a + k))
  <2>1. TO_HOST(a) + k \in HostBytes
    BY <1>1, <1>2, <1>4 DEF Touched
  <2>2. TO_HOST(Wrap(a + k)) = TO_HOST(a) + k
    BY <2>1, MemoryAssumption, NextByte
  <2>3. Wrap(a + k) \in Word
    <3>1. a + k \in Int
      BY WordAssumption DEF Word
    <3>2. QED
      BY <3>1, WrapWord
  <2>4. QED
    BY <2>1, <2>2, <2>3 DEF MemoryInv, MemoryAgrees
<1>5. d \in [0 .. 7 -> Byte] /\ \A k \in 0 .. 7 : k >= n => d[k] = 0
  <2>1. 0 \in Byte
    BY MemoryAssumption DEF Byte
  <2>2. QED
    BY <1>1, <1>3, <1>4, <2>1
<1>6. \A k \in 0 .. 7 : k < n => d[k] = L(Wrap(a + k))
  BY <1>4
<1> HIDE DEF d, n, signed, L
<1>7. \A k \in 0 .. 7 : ByteOf(rd', k) =
         IF k < n THEN d[k]
         ELSE IF signed /\ 2 * d[n - 1] >= ByteSize THEN ByteSize - 1 ELSE 0
  BY <1>1, <1>2, <1>5, ExtendedBytes
<1>8. d[n - 1] = L(Wrap(a + n - 1)) /\ d[n - 1] \in Int
  <2>1. n - 1 \in 0 .. 7 /\ n - 1 < n /\ a + (n - 1) = a + n - 1
    BY <1>1, WordAssumption DEF Word
  <2>2. QED
    BY <1>5, <1>6, <2>1 DEF Byte
<1>9. \A g \in Word : LastStored(g)' = L(g)
  <2>1. \A g \in Word : LastStored(g) = L(g)
    BY LastStoredIn DEF L
  <2>2. QED
    BY <1>2, <2>1 DEF LastStored
<1>10. LoadsSeeStores'
  <2>1. ASSUME NEW k \in 0 .. 7
        PROVE  ByteOf(rd', k) =
                 IF k < n THEN LastStored(Wrap(a + k))'
                 ELSE IF op \in {"lbu", "lhu", "lwu"}
                         \/ 2 * LastStored(Wrap(a + n - 1))' < ByteSize
                      THEN 0 ELSE ByteSize - 1
    <3>1. Wrap(a + k) \in Word /\ Wrap(a + n - 1) \in Word
      <4>1. a + k \in Int /\ a + n - 1 \in Int
        BY <1>1, WordAssumption DEF Word
      <4>2. QED
        BY <4>1, WrapWord
    <3>2. ByteSize \in Int
      BY MemoryAssumption
    <3>3. QED
      BY <1>1, <1>6, <1>7, <1>8, <1>9, <3>1, <3>2
  <2>2. QED
    BY <1>1, <1>2, <2>1 DEF LoadsSeeStores
<1>11. MemTypeOK' /\ MemoryAgrees'
  BY <1>2 DEF MemoryInv, MemTypeOK, MemoryAgrees
<1>12. QED
  BY <1>10, <1>11 DEF MemoryInv

\* What every load of the program returns is, byte by byte, what the stores
\* before it have left, whatever the width of a byte, the memory map, the
\* addresses, the values and the number of stores.
THEOREM StoresSeen == Spec => []LoadsSeeStores
<1>1. Init => MemoryInv
  <2>1. SUFFICES ASSUME Init PROVE MemoryInv
    OBVIOUS
  <2>2. log = << >> /\ mem = [h \in HostBytes |-> 0] /\ ctl = "run"
    BY <2>1 DEF Init
  <2>3. MemTypeOK
    BY <2>2, MemoryAssumption DEF MemTypeOK, Byte
  <2>4. \A g : Covering(log, g) = {}
    BY <2>2 DEF Covering
  <2>5. MemoryAgrees
    BY <2>2, <2>4 DEF MemoryAgrees, HasLatest, LastIn
  <2>6. LoadsSeeStores
    BY <2>2 DEF LoadsSeeStores
  <2>7. QED
    BY <2>3, <2>5, <2>6 DEF MemoryInv
<1>2. MemoryInv /\ [Next]_vars => MemoryInv'
  <2>1. SUFFICES ASSUME MemoryInv, [Next]_vars PROVE MemoryInv'
    OBVIOUS
  <2>2. \A rs1 \in Bases, imm \in Imms : addr(rs1, imm) \in Word
    BY MemoryAssumption, WordAssumption, WrapWord DEF addr, Word
  <2>3. ASSUME NEW rs1 \in Bases, NEW imm \in Imms, NEW op \in DOMAIN Store,
               NEW v \in Values, func_store(op, addr(rs1, imm), v)
        PROVE  MemoryInv'
    BY <2>1, <2>2, <2>3, StoreAgrees, MemoryAssumption
  <2>4. ASSUME NEW rs1 \in Bases, NEW imm \in Imms, NEW op \in DOMAIN Load,
               func_load(op, addr(rs1, imm))
        PROVE  MemoryInv'
    BY <2>1, <2>2, <2>4, LoadAgrees
  <2>5. ASSUME NEW a, NEW n, Faults(a, n)
        PROVE  MemoryInv'
    <3>1. mem' = mem /\ log' = log /\ ctl' = "crashed"
      BY <2>5 DEF Faults
    <3>2. MemTypeOK' /\ MemoryAgrees'
      BY <2>1, <3>1 DEF MemoryInv, MemTypeOK, MemoryAgrees
    <3>3. LoadsSeeStores'
      BY <3>1, SMTT(40) DEF LoadsSeeStores
    <3>4. QED
      BY <3>2, <3>3 DEF MemoryInv
  <2>6. ASSUME UNCHANGED vars
        PROVE  MemoryInv'
    BY <2>1, <2>6, ZenonT(60) DEF MemoryInv, MemTypeOK, MemoryAgrees, LoadsSeeStores, LastStored, vars
  <2>7. QED
    BY <2>1, <2>3, <2>4, <2>5, <2>6 DEF Next, Terminated
<1>3. MemoryInv => LoadsSeeStores
  BY DEF MemoryInv
<1>4. QED
  BY <1>1, <1>2, <1>3, PTL DEF Spec
=============================================================================
