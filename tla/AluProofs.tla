----------------------------- MODULE AluProofs -----------------------------
(***************************************************************************)
(* The integer handlers, for every width of the registers and all values   *)
(* of the operands.                                                        *)
(***************************************************************************)
EXTENDS Alu, NaturalsInduction, WellFoundedInduction, TLAPS

\* The number of values of half a register.
P == 2^WLen

-----------------------------------------------------------------------------
(* Words, halves and remainders.                                           *)

\* A word is two halves, and half of its values are negative.
LEMMA Halves ==
  /\ P \in Nat /\ P > 1 /\ AddrSpace = P * P /\ AddrSpace \in Nat
  /\ \E h \in Nat : h > 0 /\ P = 2 * h /\ AddrSpace = 2 * (P * h) /\ P * h >= P
<1>1. P \in Nat /\ P > 0 /\ P % 2 = 0 /\ AddrSpace = P * P
  <2>1. WLen \in 0 .. XLen
    BY AluAssumption
  <2>2. QED
    BY <2>1, PowerAssumption DEF P
<1>2. PICK h \in Nat : P = 2 * h
  <2>1. P = 2 * (P \div 2) /\ P \div 2 \in Nat
    BY <1>1
  <2>2. QED
    BY <2>1
<1>3. h > 0
  BY <1>1, <1>2
<1>4. P * P = 2 * (P * h) /\ P * h >= P
  <2>1. P * (2 * h) = 2 * (P * h)
    BY <1>1
  <2>2. P * h >= P * 1
    BY <1>1, <1>3
  <2>3. QED
    BY <1>1, <1>2, <2>1, <2>2
<1>5. QED
  BY <1>1, <1>2, <1>3, <1>4, WordAssumption

\* Quotient and remainder are determined by their equation.
LEMMA DivMod ==
  ASSUME NEW m \in Nat, m > 0, NEW q \in Int, NEW r \in Int, 0 <= r, r < m
  PROVE  (q * m + r) % m = r /\ (q * m + r) \div m = q
<1>1. \A k \in Nat \ {0} : \A i, j \in Int : 0 <= j /\ j < k => (i * k + j) % k = j
  OBVIOUS
<1>2. \A k \in Nat \ {0} : \A i, j \in Int : 0 <= j /\ j < k => (i * k + j) \div k = i
  OBVIOUS
<1>3. QED
  BY <1>1, <1>2

\* Every integer has a quotient and a remainder.
LEMMA DivModOf ==
  ASSUME NEW m \in Nat, m > 0, NEW x \in Int
  PROVE  \E q, r \in Int :
           x = q * m + r /\ 0 <= r /\ r < m /\ x % m = r /\ x \div m = q
<1>1. x = m * (x \div m) + (x % m) /\ 0 <= x % m /\ x % m < m /\ x \div m \in Int
      /\ x % m \in Int
  OBVIOUS
<1>2. PICK q \in Int, r \in Int : q = x \div m /\ r = x % m
  BY <1>1
<1>3. x = q * m + r
  <2>1. x = m * q + r
    BY <1>1, <1>2
  <2>2. QED
    BY <2>1
<1>4. QED
  BY <1>1, <1>2, <1>3

\* A multiple of the modulus does not change the remainder.
LEMMA ModShift ==
  ASSUME NEW m \in Nat, m > 0, NEW k \in Int, NEW x \in Int
  PROVE  (k * m + x) % m = x % m
<1>1. PICK q, r \in Int : x = q * m + r /\ 0 <= r /\ r < m /\ x % m = r
  BY DivModOf
<1>2. k * m + x = (k + q) * m + r /\ k + q \in Int
  BY <1>1
<1>3. QED
  BY <1>1, <1>2, DivMod

\* Wrap and Signed are inverse to each other, each on its own range.
LEMMA SignedWrap ==
  /\ \A x \in Int : Wrap(x) \in Word
  /\ \A x \in Word : Wrap(x) = x /\ Signed(x) \in Int /\ Wrap(Signed(x)) = x
                     /\ -AddrSpace <= 2 * Signed(x) /\ 2 * Signed(x) < AddrSpace
  /\ \A x \in Int : -AddrSpace <= 2 * x /\ 2 * x < AddrSpace => Signed(Wrap(x)) = x
<1>1. PICK A \in Nat : A = AddrSpace /\ A > 0
  BY WordAssumption
<1>2. \A x \in Int : Wrap(x) \in Word
  <2>1. \A x \in Int : x % A \in 0 .. (A - 1)
    BY <1>1
  <2>2. QED
    BY <1>1, <2>1 DEF Wrap, Word
<1>3. \A x \in Int : 0 <= x /\ x < A => Wrap(x) = x
  <2>1. \A x \in Int : 0 <= x /\ x < A => x % A = x
    BY <1>1
  <2>2. QED
    BY <1>1, <2>1 DEF Wrap
<1>4. \A x \in Int : -A <= x /\ x < 0 => Wrap(x) = x + A
  <2>1. ASSUME NEW x \in Int, -A <= x, x < 0 PROVE x % A = x + A
    <3>1. (-1) * A + (x + A) = x
      BY <1>1
    <3>2. ((-1) * A + (x + A)) % A = x + A
      <4>1. x + A \in Int /\ 0 <= x + A /\ x + A < A /\ -1 \in Int
        BY <1>1, <2>1
      <4>2. QED
        BY <1>1, <4>1, DivMod
    <3>3. QED
      BY <3>1, <3>2
  <2>2. QED
    BY <1>1, <2>1 DEF Wrap
<1>5. \A x \in Word : x \in Int /\ 0 <= x /\ x < A
  BY <1>1 DEF Word
<1>6. QED
  BY <1>1, <1>2, <1>3, <1>4, <1>5 DEF Signed

-----------------------------------------------------------------------------
(* Numbers with the same lower half.                                       *)

Cong(x, y) == \E k \in Int : x = y + k * P

\* Being congruent is compatible with the operations of the handlers.
LEMMA CongRules ==
  ASSUME NEW x \in Int, NEW y \in Int, Cong(x, y)
  PROVE  /\ \A z \in Int : Cong(x + z, y + z) /\ Cong(z + x, z + y) /\ Cong(x - z, y - z)
         /\ \A z \in Int : Cong(z - x, z - y)
         /\ \A z \in Int : Cong(x * z, y * z) /\ Cong(z * x, z * y)
         /\ Cong(y, x)
         /\ \A z \in Int : Cong(y, z) => Cong(x, z)
<1>1. P \in Int
  BY Halves
<1>2. PICK k \in Int : x = y + k * P
  BY DEF Cong
<1>3. PICK m \in Int : m = k * P
  BY <1>1
<1>4. ASSUME NEW z \in Int
      PROVE  Cong(x + z, y + z) /\ Cong(z + x, z + y) /\ Cong(x - z, y - z)
  <2>1. x + z = y + z + k * P /\ z + x = z + y + k * P /\ x - z = y - z + k * P
    BY <1>2, <1>3
  <2>2. QED
    BY <2>1 DEF Cong
<1>5. ASSUME NEW z \in Int
      PROVE  Cong(z - x, z - y)
  <2>1. z - x = z - y + (-k) * P /\ -k \in Int
    BY <1>1, <1>2
  <2>2. QED
    BY <2>1 DEF Cong
<1>6. ASSUME NEW z \in Int
      PROVE  Cong(x * z, y * z) /\ Cong(z * x, z * y)
  <2>1. x * z = y * z + (k * z) * P /\ z * x = z * y + (k * z) * P /\ k * z \in Int
    BY <1>1, <1>2
  <2>2. QED
    BY <2>1 DEF Cong
<1>7. Cong(y, x)
  <2>1. y = x + (-k) * P /\ -k \in Int
    BY <1>1, <1>2
  <2>2. QED
    BY <2>1 DEF Cong
<1>8. ASSUME NEW z \in Int, Cong(y, z)
      PROVE  Cong(x, z)
  <2>1. PICK j \in Int : y = z + j * P
    BY <1>8 DEF Cong
  <2>2. x = z + (j + k) * P /\ j + k \in Int
    BY <1>1, <1>2, <2>1
  <2>3. QED
    BY <2>2 DEF Cong
<1>9. QED
  BY <1>4, <1>5, <1>6, <1>7, <1>8

\* uint32 and int32 return the number of their range with the same lower half.
LEMMA LowerHalf ==
  ASSUME NEW x \in Int
  PROVE  /\ uint32(x) \in 0 .. (P - 1) /\ Cong(uint32(x), x)
         /\ int32(x) \in Int /\ Cong(int32(x), x)
         /\ -P <= 2 * int32(x) /\ 2 * int32(x) < P
         /\ int32(x) = IF 2 * uint32(x) < P THEN uint32(x) ELSE uint32(x) - P
<1>1. P \in Nat /\ P > 1
  BY Halves
<1>2. uint32(x) = x % P /\ int32(x) = IF 2 * (x % P) < P THEN x % P ELSE (x % P) - P
  BY DEF uint32, int32, P
<1>3. PICK q, r \in Int : x = q * P + r /\ 0 <= r /\ r < P /\ x % P = r
  BY <1>1, DivModOf
<1>4. r = x + (-q) * P /\ r - P = x + (-q - 1) * P /\ -q \in Int /\ -q - 1 \in Int
  BY <1>1, <1>3
<1>5. Cong(r, x) /\ Cong(r - P, x)
  BY <1>4 DEF Cong
<1>6. uint32(x) = r /\ int32(x) = IF 2 * r < P THEN r ELSE r - P
  BY <1>2, <1>3
<1>7. 0 <= r /\ r < P
  BY <1>3
<1>8. QED
  BY <1>1, <1>5, <1>6, <1>7

\* Congruent numbers have the same lower half.
LEMMA CongLower ==
  ASSUME NEW x \in Int, NEW y \in Int, Cong(x, y)
  PROVE  uint32(x) = uint32(y) /\ int32(x) = int32(y)
<1>1. P \in Nat /\ P > 0
  BY Halves
<1>2. PICK k \in Int : x = y + k * P
  BY DEF Cong
<1>3. x = k * P + y
  <2>1. PICK m \in Int : m = k * P
    BY <1>1
  <2>2. QED
    BY <1>2, <2>1
<1>4. (k * P + y) % P = y % P
  BY <1>1, ModShift, Zenon
<1>5. uint32(x) = uint32(y)
  BY <1>3, <1>4 DEF uint32, P
<1>6. QED
  BY <1>5 DEF int32

\* A number in the range of uint32_t or int32_t is its own lower half.
LEMMA InRange ==
  ASSUME NEW x \in Int
  PROVE  /\ 0 <= x /\ x < P => uint32(x) = x
         /\ -P <= 2 * x /\ 2 * x < P => int32(x) = x
<1>1. PICK p \in Nat : p = P /\ p > 1
  BY Halves
<1>2. uint32(x) = x % p /\ int32(x) = IF 2 * (x % p) < p THEN x % p ELSE (x % p) - p
  BY <1>1 DEF uint32, int32, P
<1>3. 0 <= x /\ x < p => x % p = x
  BY <1>1
<1>4. ASSUME -p <= x, x < 0 PROVE x % p = x + p
  <2>1. (-1) * p + (x + p) = x
    OBVIOUS
  <2>2. ((-1) * p + (x + p)) % p = x + p
    <3>1. x + p \in Int /\ 0 <= x + p /\ x + p < p /\ -1 \in Int
      BY <1>1, <1>4
    <3>2. QED
      BY <1>1, <3>1, DivMod
  <2>3. QED
    BY <2>1, <2>2
<1>5. QED
  BY <1>1, <1>2, <1>3, <1>4

\* Wrapping around and the conversion to int64_t keep the lower half.
LEMMA WrapCong ==
  /\ \A x \in Int : Cong(Wrap(x), x)
  /\ \A x \in Word : Cong(Signed(x), x)
<1>1. P \in Nat /\ P > 1 /\ AddrSpace = P * P /\ AddrSpace \in Nat /\ AddrSpace > 0
  BY Halves, WordAssumption
<1>2. ASSUME NEW x \in Int PROVE Cong(Wrap(x), x)
  <2>1. PICK q, r \in Int : x = q * AddrSpace + r /\ x % AddrSpace = r
    BY <1>1, DivModOf
  <2>2. r = x + (-(q * P)) * P /\ -(q * P) \in Int
    BY <1>1, <2>1
  <2>3. QED
    BY <2>1, <2>2 DEF Cong, Wrap
<1>3. ASSUME NEW x \in Word PROVE Cong(Signed(x), x)
  <2>1. x \in Int
    BY <1>1 DEF Word
  <2>2. x = x + 0 * P /\ x - AddrSpace = x + (-P) * P /\ -P \in Int
    BY <1>1, <2>1
  <2>3. QED
    BY <2>2 DEF Cong, Signed
<1>4. QED
  BY <1>2, <1>3

-----------------------------------------------------------------------------
(* What a handler has left in rd.                                          *)

Computed(o, v) ==
  \/ o \in Immediate /\ v = func_imm(o, rs1, Signed(rs2))
  \/ o \in Basic /\ v = func_basic(o, rs1, rs2)
  \/ o \in WordOps /\ v = func_word(o, rs1, rs2)
  \/ o \in MulOps /\ v = func_mul(o, rs1, rs2)
  \/ o \in DivOps /\ v = func_div(o, rs1, rs2)
  \/ o \in DivWordOps /\ v = func_divw(o, rs1, rs2)

AluInv ==
  /\ rs1 \in Word /\ rs2 \in Word
  /\ ctl = "done" => Computed(op, rd) /\ rd # Crash

\* Once a handler has returned, rd is what it computes from the operands.
LEMMA AluInvariant == Spec => []AluInv
<1>1. Init => AluInv
  BY AluAssumption DEF Init, AluInv
<1>2. AluInv /\ [Next]_vars => AluInv'
  <2>1. SUFFICES ASSUME AluInv, [Next]_vars PROVE AluInv'
    OBVIOUS
  <2>2. ASSUME NEW o, NEW v, Executed(o, v), Computed(o, v)
        PROVE  AluInv'
    BY <2>1, <2>2 DEF AluInv, Executed, Computed
  <2>3. CASE ExecImm
    BY <2>2, <2>3 DEF ExecImm, Computed
  <2>4. CASE ExecBasic
    BY <2>2, <2>4 DEF ExecBasic, Computed
  <2>5. CASE ExecWord
    BY <2>2, <2>5 DEF ExecWord, Computed
  <2>6. CASE ExecMul
    BY <2>2, <2>6 DEF ExecMul, Computed
  <2>7. CASE ExecDiv
    BY <2>2, <2>7 DEF ExecDiv, Computed
  <2>8. CASE ExecDivWord
    BY <2>2, <2>8 DEF ExecDivWord, Computed
  <2>9. CASE DivCrashes
    BY <2>1, <2>9 DEF DivCrashes, AluInv
  <2>10. CASE UNCHANGED vars
    BY <2>1, <2>10 DEF vars, AluInv, Computed
  <2>11. QED
    BY <2>1, <2>3, <2>4, <2>5, <2>6, <2>7, <2>8, <2>9, <2>10 DEF Next, Returned
<1>3. QED
  BY <1>1, <1>2, PTL DEF Spec

-----------------------------------------------------------------------------
(* Immediate operations.                                                   *)

\* The shift amount of a 32-bit operation.
LEMMA ShiftAmount ==
  ASSUME NEW b \in Int
  PROVE  /\ b % WLen \in 0 .. WLen /\ 2^(b % WLen) \in Nat /\ 2^(b % WLen) > 0
<1>1. WLen \in Nat /\ WLen > 0
  BY AluAssumption
<1>2. PICK k \in Int : k = b % WLen /\ 0 <= k /\ k < WLen
  BY <1>1
<1>3. k \in 0 .. WLen /\ k \in 0 .. XLen
  BY <1>1, <1>2, AluAssumption
<1>4. QED
  BY <1>2, <1>3, PowerAssumption

\* Shifting an int32_t to the right leaves an int32_t.
LEMMA ShiftedRight ==
  ASSUME NEW x \in Int, NEW d \in Nat, d > 0, -P <= 2 * x, 2 * x < P
  PROVE  x \div d \in Int /\ int32(x \div d) = x \div d
<1>1. PICK h \in Nat : h > 0 /\ P = 2 * h
  BY Halves
<1>2. PICK q, r \in Int : x = q * d + r /\ 0 <= r /\ r < d /\ x \div d = q
  BY DivModOf
<1>3. -h <= x /\ x < h
  BY <1>1
<1>4. q < h
  <2>1. q >= h => q * d >= q
    <3>1. ASSUME q >= h PROVE q * d >= q
      <4>1. q \in Nat
        BY <1>1, <3>1
      <4>2. QED
        BY <4>1
    <3>2. QED
      BY <3>1
  <2>2. PICK m \in Int : m = q * d
    OBVIOUS
  <2>3. QED
    BY <1>2, <1>3, <2>1, <2>2
<1>5. -h <= q
  <2>1. PICK e \in Int : e = q + 1
    OBVIOUS
  <2>2. e <= 0 => e * d <= e
    <3>1. ASSUME e <= 0 PROVE e * d <= e
      <4>1. PICK g \in Nat : e = -g
        BY <3>1
      <4>2. g * d >= g /\ (-g) * d = -(g * d)
        OBVIOUS
      <4>3. QED
        BY <4>1, <4>2
    <3>2. QED
      BY <3>1
  <2>3. e * d = q * d + d
    BY <2>1
  <2>4. PICK m \in Int : m = q * d
    OBVIOUS
  <2>5. QED
    BY <1>2, <1>3, <2>1, <2>2, <2>3, <2>4
<1>6. -P <= 2 * q /\ 2 * q < P
  BY <1>1, <1>4, <1>5
<1>7. QED
  BY <1>2, <1>6, InRange

\* An immediate may be added as it is or as a word.
LEMMA SignedSum ==
  ASSUME NEW a \in Word, NEW b \in Word
  PROVE  /\ Wrap(a + Signed(b)) = Wrap(a + b)
         /\ int32(a + Signed(b)) = int32(a + b)
<1>1. a \in Int /\ b \in Int /\ Signed(b) \in Int /\ AddrSpace \in Nat /\ AddrSpace > 0
  BY SignedWrap, WordAssumption DEF Word
<1>2. CASE Signed(b) = b
  BY <1>2
<1>3. CASE Signed(b) = b - AddrSpace
  <2>1. a + Signed(b) = (-1) * AddrSpace + (a + b) /\ a + b \in Int
    BY <1>1, <1>3
  <2>2. ((-1) * AddrSpace + (a + b)) % AddrSpace = (a + b) % AddrSpace
    <3>1. -1 \in Int
      OBVIOUS
    <3>2. QED
      BY <1>1, <2>1, <3>1, ModShift, Zenon
  <2>3. Wrap(a + Signed(b)) = Wrap(a + b)
    BY <2>1, <2>2 DEF Wrap
  <2>4. Cong(a + Signed(b), a + b)
    BY <1>1, WrapCong, CongRules
  <2>5. QED
    BY <1>1, <2>3, <2>4, CongLower
<1>4. QED
  BY <1>2, <1>3 DEF Signed

\* Each immediate operation, on the two's complement form of its immediate.
LEMMA RegisterForms ==
  ASSUME NEW a \in Word, NEW b \in Word
  PROVE  /\ func_imm("addi", a, Signed(b)) = func_basic("add", a, b)
         /\ func_imm("slli", a, Signed(b)) = func_basic("sll", a, b)
         /\ func_imm("slti", a, Signed(b)) = func_basic("slt", a, b)
         /\ func_imm("sltiu", a, Signed(b)) = func_basic("sltu", a, b)
         /\ func_imm("xori", a, Signed(b)) = func_basic("xor", a, b)
         /\ func_imm("srli", a, Signed(b)) = func_basic("srl", a, b)
         /\ func_imm("srai", a, Signed(b)) = func_basic("sra", a, b)
         /\ func_imm("ori", a, Signed(b)) = func_basic("or", a, b)
         /\ func_imm("andi", a, Signed(b)) = func_basic("and", a, b)
         /\ func_imm("addiw", a, Signed(b)) = func_word("addw", a, b)
         /\ func_imm("slliw", a, Signed(b)) = func_word("sllw", a, b)
         /\ func_imm("srliw", a, Signed(b)) = func_word("srlw", a, b)
         /\ func_imm("sraiw", a, Signed(b)) = func_word("sraw", a, b)
<1>1. a \in Int /\ b \in Int /\ Signed(b) \in Int /\ Wrap(Signed(b)) = b
  BY SignedWrap, WordAssumption DEF Word
<1>2. func_imm("addi", a, Signed(b)) = func_basic("add", a, b)
  <2>1. func_imm("addi", a, Signed(b)) = Wrap(a + Signed(b))
    BY Zenon DEF func_imm
  <2>2. func_basic("add", a, b) = Wrap(a + b)
    BY Zenon DEF func_basic
  <2>3. QED
    BY <2>1, <2>2, SignedSum
<1>3. func_imm("slli", a, Signed(b)) = func_basic("sll", a, b)
  BY <1>1, Zenon DEF func_imm, func_basic
<1>4. func_imm("slti", a, Signed(b)) = func_basic("slt", a, b)
  BY <1>1, Zenon DEF func_imm, func_basic
<1>5. func_imm("sltiu", a, Signed(b)) = func_basic("sltu", a, b)
  BY <1>1, Zenon DEF func_imm, func_basic, func_sltiu
<1>6. func_imm("xori", a, Signed(b)) = func_basic("xor", a, b)
  BY <1>1, Zenon DEF func_imm, func_basic
<1>7. func_imm("srli", a, Signed(b)) = func_basic("srl", a, b)
  BY <1>1, Zenon DEF func_imm, func_basic
<1>8. func_imm("srai", a, Signed(b)) = func_basic("sra", a, b)
  BY <1>1, Zenon DEF func_imm, func_basic
<1>9. func_imm("ori", a, Signed(b)) = func_basic("or", a, b)
  BY <1>1, Zenon DEF func_imm, func_basic
<1>10. func_imm("andi", a, Signed(b)) = func_basic("and", a, b)
  BY <1>1, Zenon DEF func_imm, func_basic
<1>11. func_imm("addiw", a, Signed(b)) = func_word("addw", a, b)
  <2>1. func_imm("addiw", a, Signed(b)) = Wrap(int32(a + Signed(b)))
    BY Zenon DEF func_imm
  <2>2. func_word("addw", a, b) = Wrap(int32(a + b))
    BY Zenon DEF func_word
  <2>3. QED
    BY <2>1, <2>2, SignedSum
<1>12. func_imm("slliw", a, Signed(b)) = func_word("sllw", a, b)
  BY <1>1, Zenon DEF func_imm, func_word
<1>13. func_imm("srliw", a, Signed(b)) = func_word("srlw", a, b)
  BY <1>1, Zenon DEF func_imm, func_word
<1>14. func_imm("sraiw", a, Signed(b)) = func_word("sraw", a, b)
  <2>1. func_imm("sraiw", a, Signed(b)) = Wrap(int32(a) \div 2^(b % WLen))
    BY <1>1, Zenon DEF func_imm
  <2>2. func_word("sraw", a, b) = Wrap(int32(int32(a) \div 2^(b % WLen)))
    BY Zenon DEF func_word
  <2>3. int32(int32(a) \div 2^(b % WLen)) = int32(a) \div 2^(b % WLen)
    <3>1. PICK d \in Nat : d = 2^(b % WLen) /\ d > 0
      BY <1>1, ShiftAmount
    <3>2. int32(a) \in Int /\ -P <= 2 * int32(a) /\ 2 * int32(a) < P
      BY <1>1, LowerHalf
    <3>3. int32(int32(a) \div d) = int32(a) \div d
      BY <3>1, <3>2, ShiftedRight
    <3>4. QED
      BY <3>1, <3>3
  <2>4. QED
    BY <2>1, <2>2, <2>3
<1>15. QED
  BY <1>2, <1>3, <1>4, <1>5, <1>6, <1>7, <1>8, <1>9, <1>10, <1>11, <1>12, <1>13, <1>14

\* Every immediate operation is the register operation on the sign-extended
\* immediate, for all operands: both 64-bit and 32-bit, the shifts and the
\* unsigned comparison included.
THEOREM ImmediateForms == Spec => []ImmediateIsRegisterForm
<1>1. AluInv => ImmediateIsRegisterForm
  <2> DEFINE Form == [addi |-> "add", slli |-> "sll", slti |-> "slt", sltiu |-> "sltu",
                      xori |-> "xor", srli |-> "srl", srai |-> "sra", ori |-> "or",
                      andi |-> "and", addiw |-> "addw", slliw |-> "sllw", srliw |-> "srlw",
                      sraiw |-> "sraw"]
  <2>1. SUFFICES ASSUME AluInv, ctl = "done", op \in Immediate
                 PROVE  rd = IF Form[op] \in Basic THEN func_basic(Form[op], rs1, rs2)
                             ELSE func_word(Form[op], rs1, rs2)
    BY DEF ImmediateIsRegisterForm
  <2>2. rs1 \in Word /\ rs2 \in Word
    BY <2>1 DEF AluInv
  <2>3. rd = func_imm(op, rs1, Signed(rs2))
    BY <2>1 DEF AluInv, Computed, Immediate, Basic, WordOps, MulOps, DivOps, DivWordOps
  <2>4. /\ op \in {"addi", "slli", "slti", "sltiu", "xori", "srli", "srai", "ori", "andi"}
           => Form[op] \in Basic /\ func_imm(op, rs1, Signed(rs2)) = func_basic(Form[op], rs1, rs2)
        /\ op \in {"addiw", "slliw", "srliw", "sraiw"}
           => Form[op] \notin Basic /\ func_imm(op, rs1, Signed(rs2)) = func_word(Form[op], rs1, rs2)
    BY <2>2, RegisterForms DEF Basic
  <2>5. QED
    BY <2>1, <2>3, <2>4 DEF Immediate
<1>2. QED
  BY <1>1, AluInvariant, PTL

-----------------------------------------------------------------------------
(* The 32-bit operations.                                                  *)

Low(v) == Wrap(int32(v))

\* Low keeps the lower half, and what it returns is the extension of that half.
LEMMA LowKeeps ==
  ASSUME NEW v \in Int
  PROVE  /\ Low(v) \in Word /\ Low(v) \in Int /\ Cong(Low(v), v)
         /\ uint32(Low(v)) = uint32(v) /\ int32(Low(v)) = int32(v) /\ Low(Low(v)) = Low(v)
<1>1. int32(v) \in Int /\ Cong(int32(v), v)
  BY LowerHalf
<1>2. Low(v) \in Word /\ Low(v) \in Int /\ Cong(Low(v), int32(v))
  BY <1>1, SignedWrap, WrapCong, WordAssumption DEF Low, Word
<1>3. Cong(Low(v), v)
  BY <1>1, <1>2, CongRules
<1>4. uint32(Low(v)) = uint32(v) /\ int32(Low(v)) = int32(v)
  BY <1>2, <1>3, CongLower
<1>5. QED
  BY <1>2, <1>3, <1>4 DEF Low

\* The shift amounts are the same, since WLen divides P.
LEMMA LowShift ==
  ASSUME NEW v \in Int
  PROVE  Low(v) % WLen = v % WLen
<1>1. WLen \in Nat /\ WLen > 0 /\ P % WLen = 0 /\ P \in Nat
  BY AluAssumption, Halves DEF P
<1>2. PICK j \in Int : P = j * WLen
  <2>1. PICK q, r \in Int : P = q * WLen + r /\ P % WLen = r
    BY <1>1, DivModOf
  <2>2. P = q * WLen
    BY <1>1, <2>1
  <2>3. QED
    BY <2>2
<1>3. PICK k \in Int : Low(v) = v + k * P
  BY LowKeeps DEF Cong
<1>4. Low(v) = (k * j) * WLen + v /\ k * j \in Int
  BY <1>1, <1>2, <1>3
<1>5. ((k * j) * WLen + v) % WLen = v % WLen
  BY <1>1, <1>4, ModShift, Zenon
<1>6. QED
  BY <1>4, <1>5

\* The lower halves of the operands decide a 32-bit operation.
LEMMA WordOpsLow ==
  ASSUME NEW a \in Word, NEW b \in Word, NEW o \in WordOps
  PROVE  /\ func_word(o, Low(a), Low(b)) = func_word(o, a, b)
         /\ \E y \in Int : func_word(o, a, b) = Low(y)
<1>1. a \in Int /\ b \in Int
  BY WordAssumption DEF Word
<1>2. /\ Low(a) \in Int /\ Low(b) \in Int /\ Cong(Low(a), a) /\ Cong(Low(b), b)
      /\ uint32(Low(a)) = uint32(a) /\ int32(Low(a)) = int32(a)
      /\ Low(b) % WLen = b % WLen
  BY <1>1, LowKeeps, LowShift
<1>3. PICK d \in Nat : d = 2^(b % WLen) /\ d > 0
  BY <1>1, ShiftAmount
<1>4. \A x, y \in Int : Cong(x, y) => int32(x) = int32(y)
  BY CongLower
<1>5. CASE o = "addw"
  <2>1. /\ func_word(o, a, b) = Low(a + b)
        /\ func_word(o, Low(a), Low(b)) = Low(Low(a) + Low(b))
    BY <1>5, Zenon DEF func_word, Low
  <2>2. /\ a + b \in Int /\ Low(a) + Low(b) \in Int /\ Low(a) + b \in Int
        /\ Cong(Low(a) + Low(b), Low(a) + b) /\ Cong(Low(a) + b, a + b)
    BY <1>1, <1>2, CongRules
  <2>3. Cong(Low(a) + Low(b), a + b)
    BY <2>2, CongRules
  <2>4. QED
    BY <1>4, <2>1, <2>2, <2>3 DEF Low
<1>6. CASE o = "subw"
  <2>1. /\ func_word(o, a, b) = Low(a - b)
        /\ func_word(o, Low(a), Low(b)) = Low(Low(a) - Low(b))
    BY <1>6, Zenon DEF func_word, Low
  <2>2. /\ a - b \in Int /\ Low(a) - Low(b) \in Int /\ Low(a) - b \in Int
        /\ Cong(Low(a) - Low(b), Low(a) - b) /\ Cong(Low(a) - b, a - b)
    BY <1>1, <1>2, CongRules
  <2>3. Cong(Low(a) - Low(b), a - b)
    BY <2>2, CongRules
  <2>4. QED
    BY <1>4, <2>1, <2>2, <2>3 DEF Low
<1>7. CASE o = "mulw"
  <2>1. /\ func_word(o, a, b) = Low(a * b)
        /\ func_word(o, Low(a), Low(b)) = Low(Low(a) * Low(b))
    BY <1>7, Zenon DEF func_word, Low
  <2>2. /\ a * b \in Int /\ Low(a) * Low(b) \in Int /\ Low(a) * b \in Int
        /\ Cong(Low(a) * Low(b), Low(a) * b) /\ Cong(Low(a) * b, a * b)
    BY <1>1, <1>2, CongRules
  <2>3. Cong(Low(a) * Low(b), a * b)
    BY <2>2, CongRules
  <2>4. QED
    BY <1>4, <2>1, <2>2, <2>3 DEF Low
<1>8. CASE o = "sllw"
  <2>1. func_word(o, a, b) = Low(a * d) /\ func_word(o, Low(a), Low(b)) = Low(Low(a) * d)
    BY <1>2, <1>3, <1>8, Zenon DEF func_word, Low
  <2>2. a * d \in Int /\ Low(a) * d \in Int /\ Cong(Low(a) * d, a * d)
    BY <1>1, <1>2, CongRules
  <2>3. QED
    BY <1>4, <2>1, <2>2 DEF Low
<1>9. CASE o = "srlw"
  <2>1. /\ func_word(o, a, b) = Low(uint32(a) \div d)
        /\ func_word(o, Low(a), Low(b)) = Low(uint32(a) \div d)
    BY <1>2, <1>3, <1>9, Zenon DEF func_word, Low, Srl
  <2>2. uint32(a) \div d \in Int
    <3>1. uint32(a) \in Int
      BY <1>1, Halves, LowerHalf
    <3>2. QED
      BY <1>3, <3>1
  <2>3. QED
    BY <2>1, <2>2
<1>10. CASE o = "sraw"
  <2>1. /\ func_word(o, a, b) = Low(int32(a) \div d)
        /\ func_word(o, Low(a), Low(b)) = Low(int32(a) \div d)
    BY <1>2, <1>3, <1>10, Zenon DEF func_word, Low
  <2>2. int32(a) \div d \in Int
    BY <1>1, <1>3, LowerHalf
  <2>3. QED
    BY <2>1, <2>2
<1>11. QED
  BY <1>5, <1>6, <1>7, <1>8, <1>9, <1>10 DEF WordOps

-----------------------------------------------------------------------------
(* Division.                                                               *)

Abs(x) == IF x < 0 THEN -x ELSE x

\* C's division: the quotient is truncated towards zero, and the remainder has
\* the sign of the dividend.
LEMMA TruncatedDivision ==
  ASSUME NEW a \in Int, NEW b \in Int, b # 0
  PROVE  /\ Truncated(a, b) \in Int /\ Rest(a, b) \in Int
         /\ a = Truncated(a, b) * b + Rest(a, b)
         /\ Rest(a, b) < Abs(b) /\ -Rest(a, b) < Abs(b)
         /\ Rest(a, b) = 0 \/ (Rest(a, b) < 0) = (a < 0)
         /\ Abs(Truncated(a, b)) <= Abs(a)
         /\ Abs(b) > 1 => 2 * Abs(Truncated(a, b)) <= Abs(a)
         /\ b = 1 => Truncated(a, b) = a
         /\ b = -1 => Truncated(a, b) = -a
<1>1. PICK x \in Nat, y \in Nat : x = Abs(a) /\ y = Abs(b) /\ y > 0
  BY DEF Abs
<1>2. PICK k, r \in Int : x = k * y + r /\ 0 <= r /\ r < y /\ x \div y = k
  <2>1. x \in Int /\ y > 0
    BY <1>1
  <2>2. QED
    BY <2>1, DivModOf, Zenon
<1>3. k \in Nat
  <2>1. k < 0 => k * y <= -y
    <3>1. ASSUME k < 0 PROVE k * y <= -y
      <4>1. PICK g \in Nat : k = -g /\ g >= 1
        BY <3>1
      <4>2. g * y >= y /\ (-g) * y = -(g * y)
        BY <4>1
      <4>3. QED
        BY <4>1, <4>2
    <3>2. QED
      BY <3>1
  <2>2. PICK m \in Int : m = k * y
    OBVIOUS
  <2>3. QED
    BY <1>2, <2>1, <2>2
<1>4. PICK m \in Nat : m = k * y
  BY <1>3
<1>5. m >= k /\ (y > 1 => m >= 2 * k) /\ (y = 1 => m = k)
  BY <1>1, <1>3, <1>4
<1>6. Truncated(a, b) = IF (a < 0) # (b < 0) THEN -k ELSE k
  BY <1>1, <1>2 DEF Truncated, Abs
<1>7. Truncated(a, b) \in Int /\ Truncated(a, b) * b = IF a < 0 THEN -m ELSE m
  <2>1. k * (-y) = -m /\ (-k) * y = -m /\ (-k) * (-y) = m
    BY <1>3, <1>4
  <2>2. b = IF b < 0 THEN -y ELSE y
    BY <1>1 DEF Abs
  <2>3. CASE a < 0 /\ b < 0
    BY <1>3, <1>4, <1>6, <2>1, <2>2, <2>3
  <2>4. CASE a < 0 /\ ~(b < 0)
    BY <1>3, <1>4, <1>6, <2>1, <2>2, <2>4
  <2>5. CASE ~(a < 0) /\ b < 0
    BY <1>3, <1>4, <1>6, <2>1, <2>2, <2>5
  <2>6. CASE ~(a < 0) /\ ~(b < 0)
    BY <1>3, <1>4, <1>6, <2>1, <2>2, <2>6
  <2>7. QED
    BY <2>3, <2>4, <2>5, <2>6
<1>8. PICK t \in Int, n \in Int : t = Truncated(a, b) /\ n = t * b
  BY <1>7
<1>9. Rest(a, b) = a - n /\ n = IF a < 0 THEN -m ELSE m
  <2>1. b * t = n
    BY <1>8
  <2>2. QED
    BY <1>7, <1>8, <2>1 DEF Rest
<1>10. x = m + r /\ a = IF a < 0 THEN -x ELSE x
  BY <1>1, <1>2, <1>4 DEF Abs
<1>11. Rest(a, b) = (IF a < 0 THEN -r ELSE r) /\ a = n + Rest(a, b)
  BY <1>9, <1>10
<1>12. Abs(t) = k /\ Abs(a) = x /\ Abs(b) = y
  BY <1>1, <1>3, <1>6, <1>8 DEF Abs
<1>13. /\ Rest(a, b) \in Int /\ Rest(a, b) < Abs(b) /\ -Rest(a, b) < Abs(b)
       /\ Rest(a, b) = 0 \/ (Rest(a, b) < 0) = (a < 0)
  BY <1>2, <1>11, <1>12
<1>14. Abs(t) <= Abs(a) /\ (Abs(b) > 1 => 2 * Abs(t) <= Abs(a))
  BY <1>2, <1>5, <1>10, <1>12
<1>15. (b = 1 => t = a) /\ (b = -1 => t = -a)
  <2>1. y = 1 => r = 0 /\ x = k
    BY <1>2, <1>5, <1>10
  <2>2. b = 1 \/ b = -1 => y = 1
    BY <1>1 DEF Abs
  <2>3. QED
    BY <1>6, <1>8, <1>10, <2>1, <2>2
<1>16. QED
  BY <1>8, <1>11, <1>13, <1>14, <1>15

\* The lower halves of the operands decide a 32-bit division, too, unless it
\* crashes.
LEMMA DivWordOpsLow ==
  ASSUME NEW a \in Word, NEW b \in Word, NEW o \in DivWordOps, func_divw(o, a, b) # Crash
  PROVE  /\ func_divw(o, Low(a), Low(b)) = func_divw(o, a, b)
         /\ \E y \in Int : func_divw(o, a, b) = Low(y)
<1>1. a \in Int /\ b \in Int /\ 0 \in Int /\ -1 \in Int
  BY WordAssumption DEF Word
<1>2. /\ uint32(Low(a)) = uint32(a) /\ int32(Low(a)) = int32(a)
      /\ uint32(Low(b)) = uint32(b) /\ int32(Low(b)) = int32(b)
  BY <1>1, LowKeeps
<1>3. P \in Nat /\ P > 1
  BY Halves
<1>4. uint32(0) = 0 /\ int32(0) = 0 /\ int32(-1) = -1
  BY <1>1, <1>3, InRange
<1>5. Low(0) = 0 /\ Low(-1) = UINT64_MAX
  <2>1. Wrap(0) = 0
    BY SignedWrap, WordAssumption DEF Word
  <2>2. Signed(UINT64_MAX) = -1 /\ UINT64_MAX \in Word
    BY WordAssumption DEF Signed, UINT64_MAX, Word
  <2>3. Wrap(-1) = UINT64_MAX
    BY <2>2, SignedWrap
  <2>4. QED
    BY <1>4, <2>1, <2>3 DEF Low
<1>6. CASE b = 0
  <2>1. /\ func_divw(o, a, b) = IF o \in {"divw", "divuw"} THEN UINT64_MAX ELSE Low(a)
        /\ func_divw(o, Low(a), Low(b)) =
             IF o \in {"divw", "divuw"} THEN UINT64_MAX ELSE Low(Low(a))
    <3>1. uint32(b) = 0 /\ Low(b) = 0 /\ uint32(Low(b)) = 0
      BY <1>2, <1>4, <1>5, <1>6
    <3>2. QED
      BY <1>6, <3>1, Zenon DEF func_divw, Low
  <2>2. Low(Low(a)) = Low(a)
    BY <1>1, LowKeeps
  <2>3. QED
    BY <1>1, <1>5, <2>1, <2>2
<1>7. CASE b # 0
  <2>1. uint32(b) # 0
    <3>1. b # 0 /\ uint32(b) = 0 => func_divw(o, a, b) = Crash
      BY Zenon DEF func_divw
    <3>2. QED
      BY <1>7, <3>1
  <2>2. Low(b) # 0 /\ uint32(Low(b)) # 0
    BY <1>2, <1>4, <2>1
  <2>3. uint32(a) \in Nat /\ uint32(b) \in Nat /\ uint32(b) > 0 /\ int32(a) \in Int
        /\ int32(b) \in Int /\ int32(b) # 0
    <3>1. uint32(a) \in 0 .. (P - 1) /\ uint32(b) \in 0 .. (P - 1) /\ int32(a) \in Int
          /\ int32(b) \in Int
          /\ int32(b) = IF 2 * uint32(b) < P THEN uint32(b) ELSE uint32(b) - P
      BY <1>1, LowerHalf
    <3>2. QED
      BY <1>3, <2>1, <3>1
  <2>4. Truncated(int32(a), int32(b)) \in Int /\ Rest(int32(a), int32(b)) \in Int
    BY <2>3, TruncatedDivision
  <2>5. uint32(a) \div uint32(b) \in Int /\ uint32(a) % uint32(b) \in Int
    BY <2>3
  <2>6. CASE o = "divw"
    <3>1. /\ func_divw(o, a, b) = Low(Truncated(int32(a), int32(b)))
          /\ func_divw(o, Low(a), Low(b)) = Low(Truncated(int32(a), int32(b)))
      BY <1>2, <1>7, <2>1, <2>2, <2>6, Zenon DEF func_divw, Low
    <3>2. QED
      BY <2>4, <3>1
  <2>7. CASE o = "divuw"
    <3>1. /\ func_divw(o, a, b) = Low(uint32(a) \div uint32(b))
          /\ func_divw(o, Low(a), Low(b)) = Low(uint32(a) \div uint32(b))
      BY <1>2, <1>7, <2>1, <2>2, <2>7, Zenon DEF func_divw, Low
    <3>2. QED
      BY <2>5, <3>1
  <2>8. CASE o = "remw"
    <3>1. /\ func_divw(o, a, b) = Low(Rest(int32(a), int32(b)))
          /\ func_divw(o, Low(a), Low(b)) = Low(Rest(int32(a), int32(b)))
      BY <1>2, <1>7, <2>1, <2>2, <2>8, Zenon DEF func_divw, Low
    <3>2. QED
      BY <2>4, <3>1
  <2>9. CASE o = "remuw"
    <3>1. /\ func_divw(o, a, b) = Low(uint32(a) % uint32(b))
          /\ func_divw(o, Low(a), Low(b)) = Low(uint32(a) % uint32(b))
      BY <1>2, <1>7, <2>1, <2>2, <2>9, Zenon DEF func_divw, Low
    <3>2. QED
      BY <2>5, <3>1
  <2>10. QED
    BY <2>6, <2>7, <2>8, <2>9 DEF DivWordOps
<1>8. QED
  BY <1>6, <1>7

\* The 32-bit handlers depend on the lower halves of rs1 and rs2 only and return
\* the sign extension of their own lower half, whatever the upper halves hold.
THEOREM LowHalves == Spec => []WordOpsUseLowHalf
<1>1. AluInv => WordOpsUseLowHalf
  <2>1. SUFFICES ASSUME AluInv, ctl = "done", op \in WordOps \cup DivWordOps
                 PROVE  /\ rd = Low(rd)
                        /\ rd = IF op \in WordOps THEN func_word(op, Low(rs1), Low(rs2))
                                ELSE func_divw(op, Low(rs1), Low(rs2))
    BY DEF WordOpsUseLowHalf, Low
  <2>2. rs1 \in Word /\ rs2 \in Word /\ rd # Crash
    BY <2>1 DEF AluInv
  <2>3. CASE op \in WordOps
    <3>1. rd = func_word(op, rs1, rs2)
      BY <2>1, <2>3 DEF AluInv, Computed, Immediate, Basic, WordOps, MulOps, DivOps, DivWordOps
    <3>2. PICK y \in Int : rd = Low(y)
      BY <2>2, <2>3, <3>1, WordOpsLow
    <3>3. QED
      BY <2>2, <2>3, <3>1, <3>2, WordOpsLow, LowKeeps
  <2>4. CASE op \in DivWordOps /\ op \notin WordOps
    <3>1. rd = func_divw(op, rs1, rs2)
      BY <2>1, <2>4 DEF AluInv, Computed, Immediate, Basic, WordOps, MulOps, DivOps, DivWordOps
    <3>2. PICK y \in Int : rd = Low(y)
      BY <2>2, <2>4, <3>1, DivWordOpsLow
    <3>3. QED
      BY <2>2, <2>4, <3>1, <3>2, DivWordOpsLow, LowKeeps
  <2>5. QED
    BY <2>1, <2>3, <2>4
<1>2. QED
  BY <1>1, AluInvariant, PTL

\* The quotient and the remainder of numbers of a signed type are of that type,
\* with one exception.
LEMMA SignedDivision ==
  ASSUME NEW h \in Nat, h > 0, NEW a \in Int, NEW b \in Int, -h <= a, a < h, -h <= b, b < h,
         b # 0, ~(a = -h /\ b = -1), NEW z
  PROVE  /\ Truncated(a, b) \in Int /\ -h <= Truncated(a, b) /\ Truncated(a, b) < h
         /\ Rest(a, b) \in Int /\ -h <= Rest(a, b) /\ Rest(a, b) < h
         /\ Divides(a, b, Truncated(a, b), Rest(a, b), z, -h)
<1>1. PICK q \in Int, r \in Int : q = Truncated(a, b) /\ r = Rest(a, b)
  BY TruncatedDivision
<1>2. /\ a = q * b + r /\ r < Abs(b) /\ -r < Abs(b)
      /\ r = 0 \/ (r < 0) = (a < 0)
      /\ Abs(q) <= Abs(a) /\ (Abs(b) > 1 => 2 * Abs(q) <= Abs(a))
      /\ (b = 1 => q = a) /\ (b = -1 => q = -a)
  BY <1>1, TruncatedDivision
<1>3. -h <= q /\ q < h
  <2>1. CASE b = 1
    BY <1>2, <2>1
  <2>2. CASE b = -1
    BY <1>2, <2>2
  <2>3. CASE b # 1 /\ b # -1
    <3>1. 2 * Abs(q) <= Abs(a)
      BY <1>2, <2>3 DEF Abs
    <3>2. QED
      BY <3>1 DEF Abs
  <2>4. QED
    BY <2>1, <2>2, <2>3
<1>4. -h <= r /\ r < h
  BY <1>2 DEF Abs
<1>5. Divides(a, b, q, r, z, -h)
  BY <1>2 DEF Divides, Abs
<1>6. QED
  BY <1>1, <1>3, <1>4, <1>5

\* The limits of int64_t.
LEMMA Limits ==
  /\ INT64_MIN \in Nat /\ INT64_MIN > 1 /\ AddrSpace = 2 * INT64_MIN
  /\ INT64_MIN \in Word /\ UINT64_MAX \in Word /\ 0 \in Word
  /\ Signed(INT64_MIN) = -INT64_MIN /\ Signed(UINT64_MAX) = -1 /\ Signed(0) = 0
  /\ \A x \in Word : -INT64_MIN <= Signed(x) /\ Signed(x) < INT64_MIN
<1>1. PICK h \in Nat : h > 0 /\ P = 2 * h /\ AddrSpace = 2 * (P * h) /\ P * h >= P
  BY Halves
<1>2. PICK m \in Nat : m = P * h /\ m > 1 /\ AddrSpace = 2 * m
  BY <1>1, Halves
<1>3. INT64_MIN = m
  BY <1>2 DEF INT64_MIN
<1>4. QED
  BY <1>2, <1>3, SignedWrap DEF Word, Signed, UINT64_MAX

\* div and rem fit together.
LEMMA DivRem ==
  ASSUME NEW a \in Word, NEW b \in Word
  PROVE  Divides(Signed(a), Signed(b), Signed(func_div("div", a, b)),
                 Signed(func_div("rem", a, b)), -1, Signed(INT64_MIN))
<1>1. PICK x \in Int, y \in Int, h \in Nat :
        /\ x = Signed(a) /\ y = Signed(b) /\ h = INT64_MIN /\ h > 1 /\ AddrSpace = 2 * h
        /\ -h <= x /\ x < h /\ -h <= y /\ y < h
  BY Limits, SignedWrap
<1>2. (y = 0 <=> b = 0) /\ (x = -h <=> a = INT64_MIN) /\ (y = -1 <=> b = UINT64_MAX)
  <2>1. \A u, v \in Word : Signed(u) = Signed(v) => u = v
    BY SignedWrap
  <2>2. QED
    BY <1>1, <2>1, Limits
<1>3. CASE b = 0
  <2>1. func_div("div", a, b) = UINT64_MAX /\ func_div("rem", a, b) = a
    BY <1>3, Zenon DEF func_div
  <2>2. QED
    BY <1>1, <1>2, <1>3, <2>1, Limits DEF Divides
<1>4. CASE b # 0 /\ a = INT64_MIN /\ b = UINT64_MAX
  <2>1. func_div("div", a, b) = INT64_MIN /\ func_div("rem", a, b) = 0
    BY <1>4, Zenon DEF func_div
  <2>2. QED
    BY <1>1, <1>2, <1>4, <2>1, Limits DEF Divides
<1>5. CASE b # 0 /\ ~(a = INT64_MIN /\ b = UINT64_MAX)
  <2>1. func_div("div", a, b) = Wrap(Truncated(x, y)) /\ func_div("rem", a, b) = Wrap(Rest(x, y))
    BY <1>1, <1>5, Zenon DEF func_div
  <2>2. /\ Truncated(x, y) \in Int /\ -h <= Truncated(x, y) /\ Truncated(x, y) < h
        /\ Rest(x, y) \in Int /\ -h <= Rest(x, y) /\ Rest(x, y) < h
        /\ Divides(x, y, Truncated(x, y), Rest(x, y), -1, -h)
    <3>1. y # 0 /\ ~(x = -h /\ y = -1) /\ h > 0
      BY <1>1, <1>2, <1>5
    <3>2. QED
      BY <1>1, <3>1, SignedDivision
  <2>3. Signed(Wrap(Truncated(x, y))) = Truncated(x, y) /\ Signed(Wrap(Rest(x, y))) = Rest(x, y)
    <3>1. \A u \in Int : -h <= u /\ u < h => Signed(Wrap(u)) = u
      BY <1>1, SignedWrap
    <3>2. QED
      BY <2>2, <3>1
  <2>4. Signed(INT64_MIN) = -h
    BY <1>1, Limits
  <2>5. QED
    BY <1>1, <2>1, <2>2, <2>3, <2>4
<1>6. QED
  BY <1>3, <1>4, <1>5

\* Unsigned division.
LEMMA UnsignedDivision ==
  ASSUME NEW a \in Nat, NEW b \in Nat, b # 0, NEW z
  PROVE  Divides(a, b, a \div b, a % b, z, -1)
<1>1. PICK q, r \in Int : a = q * b + r /\ 0 <= r /\ r < b /\ a % b = r /\ a \div b = q
  <2>1. b > 0 /\ a \in Int
    OBVIOUS
  <2>2. QED
    BY <2>1, DivModOf, Zenon
<1>2. Divides(a, b, q, r, z, -1)
  BY <1>1 DEF Divides
<1>3. QED
  BY <1>1, <1>2

\* divu and remu fit together.
LEMMA DivuRemu ==
  ASSUME NEW a \in Word, NEW b \in Word
  PROVE  Divides(a, b, func_div("divu", a, b), func_div("remu", a, b), UINT64_MAX, -1)
<1>1. a \in Nat /\ b \in Nat
  BY WordAssumption DEF Word
<1>2. CASE b = 0
  <2>1. func_div("divu", a, b) = UINT64_MAX /\ func_div("remu", a, b) = a
    BY <1>2, Zenon DEF func_div
  <2>2. QED
    BY <1>2, <2>1 DEF Divides
<1>3. CASE b # 0
  <2>1. func_div("divu", a, b) = a \div b /\ func_div("remu", a, b) = a % b
    BY <1>3, Zenon DEF func_div
  <2>2. QED
    BY <1>1, <1>3, <2>1, UnsignedDivision
<1>4. QED
  BY <1>2, <1>3

\* A 32-bit division that does not crash divides by a lower half other than zero,
\* or by zero.
LEMMA DivwDefined ==
  ASSUME NEW a \in Word, NEW b \in Word, NEW o \in DivWordOps,
         func_divw(o, a, b) # Crash, b # 0
  PROVE  uint32(b) # 0 /\ uint32(b) \in Nat /\ uint32(a) \in Nat /\ int32(b) # 0
<1>1. b # 0 /\ uint32(b) = 0 => func_divw(o, a, b) = Crash
  BY Zenon DEF func_divw
<1>2. a \in Int /\ b \in Int
  BY WordAssumption DEF Word
<1>3. /\ uint32(a) \in 0 .. (P - 1) /\ uint32(b) \in 0 .. (P - 1) /\ P \in Nat
      /\ int32(b) = IF 2 * uint32(b) < P THEN uint32(b) ELSE uint32(b) - P
  BY <1>2, LowerHalf, Halves
<1>4. QED
  BY <1>1, <1>3

\* Division by zero of the lower halves, and what the results are extended from.
LEMMA LowLimits ==
  /\ uint32(0) = 0 /\ int32(0) = 0
  /\ int32(UINT64_MAX) = -1 /\ uint32(UINT64_MAX) = P - 1
  /\ \A y \in Int : int32(Wrap(int32(y))) = int32(y) /\ uint32(Wrap(int32(y))) = uint32(y)
<1>1. P \in Nat /\ P > 1
  BY Halves
<1>2. uint32(0) = 0 /\ int32(0) = 0 /\ int32(-1) = -1
  BY <1>1, InRange
<1>3. UINT64_MAX \in Word /\ UINT64_MAX \in Int /\ Signed(UINT64_MAX) = -1
  BY Limits, WordAssumption DEF UINT64_MAX
<1>4. Cong(-1, UINT64_MAX)
  BY <1>3, WrapCong
<1>5. int32(UINT64_MAX) = -1
  BY <1>2, <1>3, <1>4, CongLower
<1>6. uint32(UINT64_MAX) = P - 1
  <2>1. /\ uint32(UINT64_MAX) \in 0 .. (P - 1)
        /\ int32(UINT64_MAX) = IF 2 * uint32(UINT64_MAX) < P THEN uint32(UINT64_MAX)
                               ELSE uint32(UINT64_MAX) - P
    BY <1>3, LowerHalf
  <2>2. QED
    BY <1>1, <1>5, <2>1
<1>7. \A y \in Int : int32(Wrap(int32(y))) = int32(y) /\ uint32(Wrap(int32(y))) = uint32(y)
  BY LowKeeps DEF Low
<1>8. QED
  BY <1>2, <1>5, <1>6, <1>7

\* divw and remw fit together.
LEMMA DivwRemw ==
  ASSUME NEW a \in Word, NEW b \in Word, func_divw("divw", a, b) # Crash
  PROVE  Divides(int32(a), int32(b), int32(func_divw("divw", a, b)),
                 int32(func_divw("remw", a, b)), -1, -(2^WLen \div 2))
<1>1. a \in Int /\ b \in Int
  BY WordAssumption DEF Word
<1>2. PICK h \in Nat : h > 0 /\ P = 2 * h /\ 2^WLen \div 2 = h
  <2>1. PICK h \in Nat : h > 0 /\ P = 2 * h
    BY Halves
  <2>2. P \div 2 = h
    BY <2>1
  <2>3. QED
    BY <2>1, <2>2 DEF P
<1>3. PICK x \in Int, y \in Int :
        x = int32(a) /\ y = int32(b) /\ -h <= x /\ x < h /\ -h <= y /\ y < h
  <2>1. /\ int32(a) \in Int /\ -P <= 2 * int32(a) /\ 2 * int32(a) < P
        /\ int32(b) \in Int /\ -P <= 2 * int32(b) /\ 2 * int32(b) < P
    BY <1>1, LowerHalf
  <2>2. QED
    BY <1>2, <2>1
<1>4. CASE b = 0
  <2>1. func_divw("divw", a, b) = UINT64_MAX /\ func_divw("remw", a, b) = Wrap(int32(a))
    <3>1. uint32(b) = 0
      BY <1>4, LowLimits
    <3>2. QED
      BY <1>4, <3>1, Zenon DEF func_divw
  <2>2. int32(UINT64_MAX) = -1 /\ int32(Wrap(int32(a))) = int32(a) /\ int32(b) = 0
    BY <1>1, <1>4, LowLimits
  <2>3. QED
    BY <2>1, <2>2 DEF Divides
<1>5. CASE b # 0
  <2>1. uint32(b) # 0 /\ y # 0
    BY <1>3, <1>5, DivwDefined DEF DivWordOps
  <2>2. /\ func_divw("divw", a, b) = Wrap(int32(Truncated(x, y)))
        /\ func_divw("remw", a, b) = Wrap(int32(Rest(x, y)))
    BY <1>3, <1>5, <2>1, Zenon DEF func_divw
  <2>3. Truncated(x, y) \in Int /\ Rest(x, y) \in Int
    BY <2>1, TruncatedDivision
  <2>4. /\ int32(func_divw("divw", a, b)) = int32(Truncated(x, y))
        /\ int32(func_divw("remw", a, b)) = int32(Rest(x, y))
    BY <2>2, <2>3, LowLimits
  <2>5. CASE x = -h /\ y = -1
    <3>1. Truncated(x, y) = h /\ x = Truncated(x, y) * y + Rest(x, y)
      BY <2>1, <2>5, TruncatedDivision
    <3>2. Rest(x, y) = 0
      BY <2>3, <2>5, <3>1
    <3>3. int32(h) = -h
      <4>1. uint32(h) = h
        BY <1>2, InRange
      <4>2. int32(h) = IF 2 * uint32(h) < P THEN uint32(h) ELSE uint32(h) - P
        BY <1>2, LowerHalf
      <4>3. QED
        BY <1>2, <4>1, <4>2
    <3>4. QED
      BY <1>2, <1>3, <2>1, <2>4, <2>5, <3>1, <3>2, <3>3, LowLimits DEF Divides
  <2>6. CASE ~(x = -h /\ y = -1)
    <3>1. /\ -h <= Truncated(x, y) /\ Truncated(x, y) < h
          /\ -h <= Rest(x, y) /\ Rest(x, y) < h
          /\ Divides(x, y, Truncated(x, y), Rest(x, y), -1, -h)
      BY <1>2, <1>3, <2>1, <2>6, SignedDivision
    <3>2. int32(Truncated(x, y)) = Truncated(x, y) /\ int32(Rest(x, y)) = Rest(x, y)
      <4>1. \A u \in Int : -h <= u /\ u < h => int32(u) = u
        BY <1>2, InRange
      <4>2. QED
        BY <2>3, <3>1, <4>1
    <3>3. QED
      BY <1>2, <1>3, <2>4, <3>1, <3>2
  <2>7. QED
    BY <2>5, <2>6
<1>6. QED
  BY <1>4, <1>5

\* divuw and remuw fit together.
LEMMA DivuwRemuw ==
  ASSUME NEW a \in Word, NEW b \in Word, func_divw("divuw", a, b) # Crash
  PROVE  Divides(uint32(a), uint32(b), uint32(func_divw("divuw", a, b)),
                 uint32(func_divw("remuw", a, b)), 2^WLen - 1, -1)
<1>1. a \in Int /\ b \in Int
  BY WordAssumption DEF Word
<1>2. CASE b = 0
  <2>1. func_divw("divuw", a, b) = UINT64_MAX /\ func_divw("remuw", a, b) = Wrap(int32(a))
    <3>1. uint32(b) = 0
      BY <1>2, LowLimits
    <3>2. QED
      BY <1>2, <3>1, Zenon DEF func_divw
  <2>2. /\ uint32(UINT64_MAX) = 2^WLen - 1 /\ uint32(Wrap(int32(a))) = uint32(a)
        /\ uint32(b) = 0
    BY <1>1, <1>2, LowLimits DEF P
  <2>3. QED
    BY <2>1, <2>2 DEF Divides
<1>3. CASE b # 0
  <2>1. PICK x \in Nat, y \in Nat : x = uint32(a) /\ y = uint32(b) /\ y # 0 /\ x < P
    <3>1. uint32(a) \in 0 .. (P - 1) /\ P \in Nat
      BY <1>1, LowerHalf, Halves
    <3>2. uint32(a) < P
      BY <3>1
    <3>3. uint32(b) # 0 /\ uint32(b) \in Nat /\ uint32(a) \in Nat
      BY <1>3, DivwDefined DEF DivWordOps
    <3>4. QED
      BY <3>2, <3>3
  <2>2. /\ func_divw("divuw", a, b) = Wrap(int32(x \div y))
        /\ func_divw("remuw", a, b) = Wrap(int32(x % y))
    BY <1>3, <2>1, Zenon DEF func_divw
  <2>3. PICK q, r \in Int : x = q * y + r /\ 0 <= r /\ r < y /\ x % y = r /\ x \div y = q
    <3>1. y > 0 /\ x \in Int
      BY <2>1
    <3>2. QED
      BY <3>1, DivModOf, Zenon
  <2>4. 0 <= q /\ q <= x
    <3>1. q < 0 => q * y <= -y
      <4>1. ASSUME q < 0 PROVE q * y <= -y
        <5>1. PICK g \in Nat : q = -g /\ g >= 1
          BY <4>1
        <5>2. g * y >= y /\ (-g) * y = -(g * y)
          BY <5>1
        <5>3. QED
          BY <5>1, <5>2
      <4>2. QED
        BY <4>1
    <3>2. q >= 0 => q * y >= q
      <4>1. ASSUME q >= 0 PROVE q * y >= q
        <5>1. q \in Nat /\ y >= 1
          BY <2>1, <4>1
        <5>2. QED
          BY <5>1
      <4>2. QED
        BY <4>1
    <3>3. PICK m \in Int : m = q * y
      OBVIOUS
    <3>4. QED
      BY <2>3, <3>1, <3>2, <3>3
  <2>5. r <= x
    <3>1. q * y >= 0
      BY <2>4
    <3>2. PICK m \in Int : m = q * y
      OBVIOUS
    <3>3. QED
      BY <2>3, <3>1, <3>2
  <2>6. P \in Nat
    BY Halves
  <2>7. uint32(q) = q /\ uint32(r) = r
    <3>1. 0 <= q /\ q < P /\ 0 <= r /\ r < P
      <4>1. x < P /\ 0 <= r
        BY <2>1, <2>3
      <4>2. QED
        BY <2>4, <2>5, <2>6, <4>1
    <3>2. QED
      BY <3>1, InRange
  <2>8. uint32(func_divw("divuw", a, b)) = q /\ uint32(func_divw("remuw", a, b)) = r
    BY <2>2, <2>3, <2>7, LowLimits
  <2>9. Divides(x, y, q, r, 2^WLen - 1, -1)
    BY <2>1, <2>3, UnsignedDivision
  <2>10. QED
    BY <2>1, <2>8, <2>9
<1>4. QED
  BY <1>2, <1>3

\* Quotient and remainder fit together in all four pairs of handlers, for all
\* operands, division by zero and the overflow of the signed types included.
THEOREM Division == Spec => []QuotientAndRemainder
<1>1. AluInv => QuotientAndRemainder
  <2>1. SUFFICES ASSUME AluInv PROVE QuotientAndRemainder
    OBVIOUS
  <2>2. rs1 \in Word /\ rs2 \in Word
    BY <2>1 DEF AluInv
  <2>3. \A o \in DivOps : Done(o) => rd = func_div(o, rs1, rs2)
    BY <2>1 DEF Done, AluInv, Computed, Immediate, Basic, WordOps, MulOps, DivOps, DivWordOps
  <2>4. \A o \in DivWordOps : Done(o) => rd = func_divw(o, rs1, rs2) /\ rd # Crash
    BY <2>1 DEF Done, AluInv, Computed, Immediate, Basic, WordOps, MulOps, DivOps, DivWordOps
  <2>5. /\ Done("div") => rd = func_div("div", rs1, rs2)
        /\ Done("divu") => rd = func_div("divu", rs1, rs2)
        /\ Done("divw") => rd = func_divw("divw", rs1, rs2) /\ rd # Crash
        /\ Done("divuw") => rd = func_divw("divuw", rs1, rs2) /\ rd # Crash
    BY <2>3, <2>4 DEF DivOps, DivWordOps
  <2>6. QED
    BY <2>2, <2>5, DivRem, DivuRemu, DivwRemw, DivuwRemuw DEF QuotientAndRemainder
<1>2. QED
  BY <1>1, AluInvariant, PTL

-----------------------------------------------------------------------------
(* Multiplication.                                                         *)

\* The product of two halves, with a carry added, is less than P * P.
LEMMA HalfProduct ==
  ASSUME NEW p \in Nat, p > 0, NEW i \in Nat, NEW j \in Nat, i < p, j < p
  PROVE  i * j \in Nat /\ i * j <= p * p - 2 * p + 1
<1>1. PICK c \in Nat : p = c + 1 /\ i <= c /\ j <= c
  <2>1. p - 1 \in Nat /\ p = (p - 1) + 1 /\ i <= p - 1 /\ j <= p - 1
    OBVIOUS
  <2>2. QED
    BY <2>1
<1>2. i * j <= c * j /\ i * j \in Nat
  BY <1>1
<1>3. c * j <= c * c
  BY <1>1
<1>4. c * c = p * p - 2 * p + 1
  BY <1>1
<1>5. PICK x \in Nat, y \in Nat, z \in Nat : x = i * j /\ y = c * j /\ z = c * c
  BY <1>2
<1>6. x <= z
  BY <1>2, <1>3, <1>5
<1>7. QED
  BY <1>4, <1>5, <1>6

\* The quotient of a number less than P * P is less than P.
LEMMA HighQuotient ==
  ASSUME NEW p \in Nat, p > 0, NEW n \in Nat, n < p * p, NEW q \in Int, NEW r \in Int,
         n = q * p + r, 0 <= r, r < p
  PROVE  0 <= q /\ q < p
<1>1. q < 0 => q * p <= -p
  <2>1. ASSUME q < 0 PROVE q * p <= -p
    <3>1. PICK g \in Nat : q = -g /\ g >= 1
      BY <2>1
    <3>2. g * p >= p /\ (-g) * p = -(g * p)
      BY <3>1
    <3>3. QED
      BY <3>1, <3>2
  <2>2. QED
    BY <2>1
<1>2. q >= p => q * p >= p * p
  <2>1. ASSUME q >= p PROVE q * p >= p * p
    <3>1. q \in Nat
      BY <2>1
    <3>2. QED
      BY <2>1, <3>1
  <2>2. QED
    BY <2>1
<1>3. PICK m \in Int, s \in Int : m = q * p /\ s = p * p
  OBVIOUS
<1>4. QED
  BY <1>1, <1>2, <1>3

\* Schoolbook multiplication of numbers of two digits.
LEMMA FourProducts ==
  ASSUME NEW p \in Int, NEW ah \in Int, NEW al \in Int, NEW bh \in Int, NEW bl \in Int,
         NEW xh \in Int, NEW xl \in Int, NEW u \in Int, NEW v \in Int, NEW w \in Int,
         NEW z \in Int,
         al * bl = xh * p + xl, ah * bl + xh = u * p + v, al * bh + v = w * p + z
  PROVE  (ah * p + al) * (bh * p + bl) = (ah * bh + u + w) * (p * p) + (z * p + xl)
<1>1. (ah * p + al) * (bh * p + bl)
        = (ah * bh) * (p * p) + (ah * bl) * p + (al * bh) * p + al * bl
  OBVIOUS
<1>2. PICK e, f, g \in Int : e = ah * bl /\ f = al * bh /\ g = ah * bh
  OBVIOUS
<1>3. e = u * p + v - xh /\ f = w * p + z - v
  BY <1>2
<1>4. e * p = (u * p + v - xh) * p /\ f * p = (w * p + z - v) * p
  BY <1>3
<1>5. /\ (u * p + v - xh) * p = u * (p * p) + v * p - xh * p
      /\ (w * p + z - v) * p = w * (p * p) + z * p - v * p
      /\ (g + u + w) * (p * p) = g * (p * p) + u * (p * p) + w * (p * p)
  OBVIOUS
<1>6. PICK ep, fp, up, vp, wp, gp, zp, xp \in Int :
        /\ ep = e * p /\ fp = f * p /\ up = u * (p * p) /\ vp = v * p /\ wp = w * (p * p)
        /\ gp = g * (p * p) /\ zp = z * p /\ xp = xh * p
  OBVIOUS
<1>7. ep = up + vp - xp /\ fp = wp + zp - vp
  BY <1>4, <1>5, <1>6
<1>8. (ah * p + al) * (bh * p + bl) = gp + ep + fp + (xp + xl)
  BY <1>1, <1>2, <1>6
<1>9. (ah * bh + u + w) * (p * p) + (z * p + xl) = gp + up + wp + (zp + xl)
  BY <1>2, <1>5, <1>6
<1>10. QED
  BY <1>7, <1>8, <1>9

\* mulhu and mul are the halves of the product of two words.
LEMMA HighHalf ==
  ASSUME NEW a \in Word, NEW b \in Word
  PROVE  mulhu(a, b) \in Word /\ a * b = mulhu(a, b) * AddrSpace + Wrap(a * b)
<1>1. PICK p \in Nat : p = P /\ p > 1 /\ AddrSpace = p * p
  BY Halves
<1>2. a \in Nat /\ b \in Nat /\ a < p * p /\ b < p * p /\ p > 0
  BY <1>1, WordAssumption DEF Word
<1>3. ASSUME NEW n \in Nat, n < p * p
      PROVE  \E h, l \in Nat : n = h * p + l /\ h < p /\ l < p /\ n % p = l /\ n \div p = h
  <2>1. PICK h, l \in Int : n = h * p + l /\ 0 <= l /\ l < p /\ n % p = l /\ n \div p = h
    BY <1>2, DivModOf
  <2>2. 0 <= h /\ h < p
    BY <1>2, <1>3, <2>1, HighQuotient
  <2>3. h \in Nat /\ l \in Nat
    BY <2>1, <2>2
  <2>4. QED
    BY <2>1, <2>2, <2>3
<1>4. PICK ah, al \in Nat : a = ah * p + al /\ ah < p /\ al < p /\ a % p = al /\ a \div p = ah
  BY <1>2, <1>3
<1>5. PICK bh, bl \in Nat : b = bh * p + bl /\ bh < p /\ bl < p /\ b % p = bl /\ b \div p = bh
  BY <1>2, <1>3
<1>6. \A i, j \in Nat : i < p /\ j < p => i * j \in Nat /\ i * j <= p * p - 2 * p + 1
  BY <1>2, HalfProduct
<1>7. PICK s \in Nat : s = p * p
  BY <1>1
<1>8. \A i, j, k \in Nat : i < p /\ j < p /\ k < p =>
        i * j + k \in Nat /\ i * j + k < p * p
  <2>1. ASSUME NEW i \in Nat, NEW j \in Nat, NEW k \in Nat, i < p, j < p, k < p
        PROVE  i * j + k \in Nat /\ i * j + k < p * p
    <3>1. PICK m \in Nat : m = i * j /\ m <= s - 2 * p + 1
      BY <1>6, <1>7, <2>1
    <3>2. QED
      BY <1>1, <1>7, <2>1, <3>1
  <2>2. QED
    BY <2>1
<1>9. PICK xh, xl \in Nat : /\ al * bl = xh * p + xl /\ xh < p /\ xl < p
                            /\ (al * bl) % p = xl /\ (al * bl) \div p = xh
  <2>1. al * bl \in Nat /\ al * bl < p * p
    <3>1. PICK m \in Nat : m = al * bl /\ m <= s - 2 * p + 1
      BY <1>4, <1>5, <1>6, <1>7
    <3>2. QED
      BY <1>1, <1>7, <3>1
  <2>2. QED
    BY <1>3, <2>1
<1>10. PICK t1 \in Nat : t1 = ah * bl + xh /\ t1 < p * p
  BY <1>4, <1>5, <1>8, <1>9
<1>11. PICK u, v \in Nat : t1 = u * p + v /\ u < p /\ v < p /\ t1 % p = v /\ t1 \div p = u
  BY <1>3, <1>10
<1>12. PICK t2 \in Nat : t2 = al * bh + v /\ t2 < p * p
  BY <1>4, <1>5, <1>8, <1>11
<1>13. PICK w, z \in Nat : t2 = w * p + z /\ w < p /\ z < p /\ t2 % p = z /\ t2 \div p = w
  BY <1>3, <1>12
<1>14. PICK t3 \in Nat : t3 = ah * bh + u + w /\ t3 < p * p
  <2>1. PICK m \in Nat : m = ah * bh /\ m <= s - 2 * p + 1
    BY <1>4, <1>5, <1>6, <1>7
  <2>2. m + u + w \in Nat /\ m + u + w < s
    BY <1>1, <1>7, <1>11, <1>13, <2>1
  <2>3. QED
    BY <1>7, <2>1, <2>2
<1>15. PICK yh, yl \in Nat : t3 = yh * p + yl /\ yh < p /\ yl < p /\ t3 % p = yl /\ t3 \div p = yh
  BY <1>3, <1>14
<1>16. \A n \in Nat : n < p * p => Wrap(n) = n
  BY <1>1, SignedWrap DEF Word
<1>17. mulhu(a, b) = t3
  <2>1. /\ Wrap(ah * bl + xh) = t1 /\ Wrap(al * bh + v) = t2 /\ Wrap(ah * bh + u + w) = t3
    BY <1>10, <1>12, <1>14, <1>16
  <2>2. Wrap(yh * p) + yl = t3
    <3>1. PICK m \in Nat : m = yh * p
      OBVIOUS
    <3>2. m < p * p
      BY <1>7, <1>14, <1>15, <3>1
    <3>3. QED
      BY <1>15, <1>16, <3>1, <3>2
  <2>3. p = 2^WLen
    BY <1>1 DEF P
  <2>4. QED
    <3>1. /\ a % 2^WLen = al /\ b % 2^WLen = bl /\ Srl(a, WLen) = ah /\ Srl(b, WLen) = bh
          /\ Srl(al * bl, WLen) = xh /\ t1 % 2^WLen = v /\ Srl(t1, WLen) = u
          /\ Srl(t2, WLen) = w /\ Srl(t3, WLen) = yh /\ t3 % 2^WLen = yl
          /\ Wrap(yh * 2^WLen) + yl = t3
      BY <1>4, <1>5, <1>9, <1>11, <1>13, <1>15, <2>2, <2>3 DEF Srl
    <3>2. QED
      BY <2>1, <3>1 DEF mulhu
<1>18. a * b = t3 * (p * p) + (z * p + xl)
  BY <1>4, <1>5, <1>9, <1>10, <1>11, <1>12, <1>13, <1>14, FourProducts
<1>19. PICK low \in Nat : low = z * p + xl /\ low < p * p
  <2>1. z * p + xl \in Nat
    OBVIOUS
  <2>2. z * p + p <= p * p
    <3>1. (z + 1) * p <= p * p
      BY <1>13
    <3>2. (z + 1) * p = z * p + p
      OBVIOUS
    <3>3. QED
      BY <3>1, <3>2
  <2>3. PICK m \in Nat : m = z * p
    OBVIOUS
  <2>4. QED
    BY <1>7, <1>9, <2>1, <2>2, <2>3
<1>20. Wrap(a * b) = low
  <2>1. (t3 * AddrSpace + low) % AddrSpace = low
    <3>1. /\ AddrSpace \in Nat /\ AddrSpace > 0 /\ t3 \in Int /\ low \in Int /\ 0 <= low
          /\ low < AddrSpace
      BY <1>1, <1>19, WordAssumption
    <3>2. QED
      BY <3>1, DivMod, Zenon
  <2>2. QED
    BY <1>1, <1>18, <1>19, <2>1 DEF Wrap
<1>21. t3 \in Word
  BY <1>1, <1>14 DEF Word
<1>22. QED
  BY <1>1, <1>17, <1>18, <1>19, <1>20, <1>21

\* Negated turns the high half of a magnitude into that of its negation.
LEMMA NegatedHigh ==
  ASSUME NEW neg \in BOOLEAN, NEW res \in Nat, NEW low \in Nat, low < AddrSpace,
         res < INT64_MIN, NEW s \in Int,
         s = IF neg THEN -(res * AddrSpace + low) ELSE res * AddrSpace + low
  PROVE  Signed(Negated(neg, res, Wrap(s))) * AddrSpace + Wrap(s) = s
<1>1. PICK A \in Nat, h \in Nat : A = AddrSpace /\ h = INT64_MIN /\ A = 2 * h /\ h > 1
  BY Limits, WordAssumption
<1>2. \A q, r \in Int : 0 <= r /\ r < A => Wrap(q * A + r) = r
  <2>1. A > 0
    BY <1>1
  <2>2. \A q, r \in Int : 0 <= r /\ r < A => (q * A + r) % A = r
    BY <2>1, DivMod
  <2>3. QED
    BY <1>1, <2>2 DEF Wrap
<1>3. \A u \in Int : -h <= u /\ u < h => Signed(Wrap(u)) = u
  BY <1>1, SignedWrap
<1>4. \A u \in Int : -A <= u /\ u < 0 => Wrap(A + u) = Wrap(u)
  <2>1. ASSUME NEW u \in Int, -A <= u, u < 0 PROVE Wrap(A + u) = Wrap(u)
    <3>1. A + u \in Int /\ 0 <= A + u /\ A + u < A /\ u = (-1) * A + (A + u)
          /\ A + u = 0 * A + (A + u) /\ -1 \in Int /\ 0 \in Int
      BY <2>1
    <3>2. QED
      BY <1>2, <3>1
  <2>2. QED
    BY <2>1
<1>5. CASE ~neg
  <2>1. s = res * A + low /\ Wrap(s) = low
    BY <1>1, <1>2, <1>5
  <2>2. Negated(neg, res, Wrap(s)) = res
    BY <1>5 DEF Negated
  <2>3. Signed(res) = res
    BY <1>1 DEF Signed
  <2>4. QED
    BY <1>1, <2>1, <2>2, <2>3
<1>6. CASE neg /\ low = 0
  <2>1. s = (-res) * A + 0 /\ -res \in Int
    BY <1>1, <1>6
  <2>2. Wrap(s) = 0
    <3>1. 0 <= 0 /\ 0 < A /\ 0 \in Int
      BY <1>1
    <3>2. Wrap((-res) * A + 0) = 0
      BY <1>2, <2>1, <3>1, Zenon
    <3>3. QED
      BY <2>1, <3>2, Zenon
  <2>3. Negated(neg, res, Wrap(s)) = Wrap(A - res)
    <3>1. UINT64_MAX - res + 1 = A - res
      BY <1>1 DEF UINT64_MAX
    <3>2. Negated(neg, res, Wrap(s)) = Wrap(UINT64_MAX - res + (IF Wrap(s) = 0 THEN 1 ELSE 0))
      BY <1>6, Zenon DEF Negated
    <3>3. (IF Wrap(s) = 0 THEN 1 ELSE 0) = 1
      BY <2>2, Zenon
    <3>4. QED
      BY <3>1, <3>2, <3>3, Zenon
  <2>4. Signed(Wrap(A - res)) = -res
    <3>1. CASE res = 0
      <4>1. A - res = 1 * A + 0 /\ 0 <= 0 /\ 0 < A /\ 1 \in Int /\ 0 \in Int
        BY <1>1, <3>1
      <4>2. Wrap(1 * A + 0) = 0
        BY <1>2, <4>1, Zenon
      <4>3. QED
        BY <1>1, <3>1, <4>1, <4>2 DEF Signed
    <3>2. CASE res > 0
      <4>1. -res \in Int /\ -A <= -res /\ -res < 0 /\ -h <= -res /\ -res < h
            /\ A + (-res) = A - res
        BY <1>1, <3>2
      <4>2. QED
        BY <1>3, <1>4, <4>1
    <3>3. QED
      BY <3>1, <3>2
  <2>5. QED
    BY <1>1, <2>1, <2>2, <2>3, <2>4
<1>7. CASE neg /\ low > 0
  <2>1. s = (-res - 1) * A + (A - low) /\ -res - 1 \in Int /\ A - low \in Int
        /\ 0 <= A - low /\ A - low < A /\ A - low # 0
    <3>1. (-res - 1) * A = -(res * A) - A
      OBVIOUS
    <3>2. PICK m \in Int : m = res * A
      OBVIOUS
    <3>3. QED
      BY <1>1, <1>7, <3>1, <3>2
  <2>2. Wrap(s) = A - low
    BY <1>2, <2>1
  <2>3. Negated(neg, res, Wrap(s)) = Wrap(A + (-res - 1))
    <3>1. UINT64_MAX - res + 0 = A + (-res - 1)
      BY <1>1 DEF UINT64_MAX
    <3>2. Negated(neg, res, Wrap(s)) = Wrap(UINT64_MAX - res + (IF Wrap(s) = 0 THEN 1 ELSE 0))
      BY <1>7, Zenon DEF Negated
    <3>3. (IF Wrap(s) = 0 THEN 1 ELSE 0) = 0
      BY <2>1, <2>2, Zenon
    <3>4. QED
      BY <3>1, <3>2, <3>3, Zenon
  <2>4. Signed(Wrap(A + (-res - 1))) = -res - 1
    <3>1. -A <= -res - 1 /\ -res - 1 < 0 /\ -h <= -res - 1 /\ -res - 1 < h
      BY <1>1
    <3>2. QED
      BY <1>3, <1>4, <2>1, <3>1
  <2>5. QED
    BY <1>1, <2>1, <2>2, <2>3, <2>4
<1>8. QED
  BY <1>5, <1>6, <1>7

\* The high half of a signed product, from the magnitudes.
LEMMA SignedHigh ==
  ASSUME NEW x \in Int, NEW y \in Int, Abs(x) <= INT64_MIN, Abs(y) < AddrSpace
  PROVE  Signed(Negated((x < 0) # (y < 0), mulhu(Abs(x), Abs(y)), Wrap(x * y))) * AddrSpace
           + Wrap(x * y) = x * y
<1>1. PICK A \in Nat, h \in Nat : A = AddrSpace /\ h = INT64_MIN /\ A = 2 * h /\ h > 1
  BY Limits, WordAssumption
<1>2. PICK i \in Nat, j \in Nat : i = Abs(x) /\ j = Abs(y) /\ i <= h /\ j < A
  BY <1>1 DEF Abs
<1>3. i \in Word /\ j \in Word
  BY <1>1, <1>2 DEF Word
<1>4. PICK res \in Nat, low \in Nat :
        res = mulhu(i, j) /\ low = Wrap(i * j) /\ i * j = res * A + low /\ low < A
  <2>1. mulhu(i, j) \in Word /\ i * j = mulhu(i, j) * AddrSpace + Wrap(i * j)
    BY <1>3, HighHalf
  <2>2. Wrap(i * j) \in Word
    BY SignedWrap
  <2>3. QED
    BY <1>1, <2>1, <2>2 DEF Word
<1>5. res < h
  <2>1. i * j < h * A
    <3>1. i * j <= h * j
      BY <1>2
    <3>2. h * j < h * A
      <4>1. PICK c \in Nat : A = j + c /\ c >= 1
        <5>1. A - j \in Nat /\ A = j + (A - j) /\ A - j >= 1
          BY <1>2
        <5>2. QED
          BY <5>1
      <4>2. h * A = h * j + h * c /\ h * c >= 1
        BY <1>1, <4>1
      <4>3. PICK m \in Nat, n \in Nat : m = h * j /\ n = h * c
        BY <4>1
      <4>4. QED
        BY <4>2, <4>3
    <3>3. PICK m \in Nat, n \in Nat, k \in Nat : m = i * j /\ n = h * j /\ k = h * A
      OBVIOUS
    <3>4. QED
      BY <3>1, <3>2, <3>3
  <2>2. res >= h => res * A >= h * A
    OBVIOUS
  <2>3. PICK m \in Nat, n \in Nat : m = res * A /\ n = h * A
    OBVIOUS
  <2>4. QED
    BY <1>4, <2>1, <2>2, <2>3
<1>6. PICK s \in Int : s = x * y
  OBVIOUS
<1>7. s = IF (x < 0) # (y < 0) THEN -(i * j) ELSE i * j
  <2>1. x = (IF x < 0 THEN -i ELSE i) /\ y = (IF y < 0 THEN -j ELSE j)
    BY <1>2 DEF Abs
  <2>2. (-i) * j = -(i * j) /\ i * (-j) = -(i * j) /\ (-i) * (-j) = i * j
    OBVIOUS
  <2>3. CASE x < 0 /\ y < 0
    BY <1>6, <2>1, <2>2, <2>3
  <2>4. CASE x < 0 /\ ~(y < 0)
    BY <1>6, <2>1, <2>2, <2>4
  <2>5. CASE ~(x < 0) /\ y < 0
    BY <1>6, <2>1, <2>2, <2>5
  <2>6. CASE ~(x < 0) /\ ~(y < 0)
    BY <1>6, <2>1, <2>2, <2>6
  <2>7. QED
    BY <2>3, <2>4, <2>5, <2>6
<1>8. PICK neg \in BOOLEAN : neg = ((x < 0) # (y < 0))
  OBVIOUS
<1>9. s = IF neg THEN -(res * AddrSpace + low) ELSE res * AddrSpace + low
  BY <1>1, <1>4, <1>7, <1>8
<1>10. Signed(Negated(neg, res, Wrap(s))) * AddrSpace + Wrap(s) = s
  <2>1. low < AddrSpace /\ res < INT64_MIN
    BY <1>1, <1>4, <1>5
  <2>2. QED
    BY <1>9, <2>1, NegatedHigh, ZenonT(60)
<1>11. QED
  BY <1>2, <1>4, <1>6, <1>8, <1>10

\* The product of two words and that of their signed values have the same lower
\* half.
LEMMA SameLow ==
  ASSUME NEW a \in Word, NEW b \in Word
  PROVE  Wrap(a * b) = Wrap(Signed(a) * Signed(b)) /\ Wrap(a * b) = Wrap(Signed(a) * b)
<1>1. PICK A \in Nat : A = AddrSpace /\ A > 0
  BY WordAssumption
<1>2. a \in Int /\ b \in Int /\ Signed(a) \in Int /\ Signed(b) \in Int
  BY SignedWrap, WordAssumption DEF Word
<1>3. PICK x \in Int, y \in Int, i \in Int, j \in Int :
        x = Signed(a) /\ y = Signed(b) /\ a = i * A + x /\ b = j * A + y
  <2>1. ASSUME NEW v \in Word PROVE \E i \in Int : v = i * A + Signed(v)
    <3>1. v \in Int
      BY <1>1 DEF Word
    <3>2. Signed(v) = v \/ Signed(v) = v - A
      BY <1>1 DEF Signed
    <3>3. CASE Signed(v) = v
      <4>1. v = 0 * A + Signed(v) /\ 0 \in Int
        BY <1>1, <3>1, <3>3
      <4>2. QED
        BY <4>1, Zenon
    <3>4. CASE Signed(v) = v - A
      <4>1. v = 1 * A + Signed(v) /\ 1 \in Int
        BY <1>1, <3>1, <3>4
      <4>2. QED
        BY <4>1, Zenon
    <3>5. QED
      BY <3>2, <3>3, <3>4
  <2>2. (\E i \in Int : a = i * A + Signed(a)) /\ (\E j \in Int : b = j * A + Signed(b))
    BY <2>1, Zenon
  <2>3. QED
    BY <1>2, <2>2, Zenon
<1>4. \A k, v \in Int : Wrap(k * A + v) = Wrap(v)
  <2>1. ASSUME NEW k \in Int, NEW v \in Int PROVE Wrap(k * A + v) = Wrap(v)
    <3>1. (k * A + v) % A = v % A
      BY <1>1, ModShift, Zenon
    <3>2. QED
      BY <1>1, <3>1, Zenon DEF Wrap
  <2>2. QED
    BY <2>1, Zenon
<1>5. /\ (i * A + x) * b = (i * b) * A + x * b /\ i * b \in Int /\ x * b \in Int
      /\ x * (j * A + y) = (x * j) * A + x * y /\ x * j \in Int /\ x * y \in Int
  BY <1>2
<1>6. Wrap(a * b) = Wrap(x * b)
  <2>1. a * b = (i * b) * A + x * b
    BY <1>3, <1>5, Zenon
  <2>2. Wrap((i * b) * A + x * b) = Wrap(x * b)
    BY <1>4, <1>5, Zenon
  <2>3. QED
    BY <2>1, <2>2, Zenon
<1>7. Wrap(x * b) = Wrap(x * y)
  <2>1. x * b = (x * j) * A + x * y
    BY <1>3, <1>5, Zenon
  <2>2. Wrap((x * j) * A + x * y) = Wrap(x * y)
    BY <1>4, <1>5, Zenon
  <2>3. QED
    BY <2>1, <2>2, Zenon
<1>8. QED
  BY <1>3, <1>6, <1>7

\* The magnitude of a word as the code computes it.
LEMMA Magnitudes ==
  ASSUME NEW a \in Word
  PROVE  Magnitude(a) = Abs(Signed(a)) /\ Abs(Signed(a)) <= INT64_MIN
<1>1. PICK A \in Nat, h \in Nat : A = AddrSpace /\ h = INT64_MIN /\ A = 2 * h /\ h > 1
  BY Limits, WordAssumption
<1>2. a \in Int /\ 0 <= a /\ a < A
  BY <1>1 DEF Word
<1>3. CASE Signed(a) < 0
  <2>1. Signed(a) = a - A /\ a >= h
    BY <1>1, <1>2, <1>3 DEF Signed
  <2>2. Wrap(-a) = A - a
    <3>1. A - a \in Int /\ 0 <= A - a /\ A - a < A /\ -a = (-1) * A + (A - a) /\ -1 \in Int
      BY <1>1, <1>2, <2>1
    <3>2. ((-1) * A + (A - a)) % A = A - a
      BY <1>1, <3>1, DivMod
    <3>3. QED
      BY <1>1, <3>1, <3>2 DEF Wrap
  <2>3. QED
    BY <1>1, <1>2, <1>3, <2>1, <2>2 DEF Magnitude, Abs
<1>4. CASE ~(Signed(a) < 0)
  <2>1. Signed(a) = a /\ a < h
    BY <1>1, <1>2, <1>4 DEF Signed
  <2>2. QED
    BY <1>1, <1>2, <1>4, <2>1 DEF Magnitude, Abs
<1>5. QED
  BY <1>3, <1>4

\* mulhu, mulh and mulhsu, each with mul, are the two halves of the product, for
\* all operands, although the signed ones negate a product of magnitudes in halves.
THEOREM Products == Spec => []FullProduct
<1>1. ASSUME NEW a \in Word, NEW b \in Word
      PROVE  /\ mulhu(a, b) * AddrSpace + Wrap(a * b) = a * b
             /\ Signed(mulh(a, b)) * AddrSpace + Wrap(a * b) = Signed(a) * Signed(b)
             /\ Signed(mulhsu(a, b)) * AddrSpace + Wrap(a * b) = Signed(a) * b
  <2>1. a \in Int /\ b \in Int /\ 0 <= b /\ b < AddrSpace /\ AddrSpace \in Nat
    BY WordAssumption DEF Word
  <2>2. mulhu(a, b) * AddrSpace + Wrap(a * b) = a * b
    BY HighHalf
  <2>3. PICK x \in Int, y \in Int :
          /\ x = Signed(a) /\ y = Signed(b) /\ Abs(x) <= INT64_MIN /\ Abs(y) < AddrSpace
          /\ Magnitude(a) = Abs(x) /\ Magnitude(b) = Abs(y)
    <3>1. Signed(a) \in Int /\ Signed(b) \in Int
      BY SignedWrap
    <3>2. Abs(Signed(b)) \in Int
      BY <3>1 DEF Abs
    <3>3. Abs(Signed(b)) < AddrSpace
      BY <2>1, <3>2, Magnitudes, Limits
    <3>4. QED
      BY <3>1, <3>3, Magnitudes
  <2>4. Wrap(a * b) = Wrap(x * y) /\ Wrap(a * b) = Wrap(x * b)
    BY <2>3, SameLow
  <2>5. Signed(mulh(a, b)) * AddrSpace + Wrap(a * b) = x * y
    <3>1. mulh(a, b) = Negated((x < 0) # (y < 0), mulhu(Abs(x), Abs(y)), Wrap(x * y))
      BY <2>3, <2>4 DEF mulh
    <3>2. QED
      BY <2>3, <2>4, <3>1, SignedHigh
  <2>6. Signed(mulhsu(a, b)) * AddrSpace + Wrap(a * b) = x * b
    <3>1. Abs(b) = b /\ ((x < 0) # (b < 0)) = (x < 0)
      BY <2>1 DEF Abs
    <3>2. mulhsu(a, b) = Negated((x < 0) # (b < 0), mulhu(Abs(x), Abs(b)), Wrap(x * b))
      BY <2>3, <2>4, <3>1 DEF mulhsu
    <3>3. QED
      BY <2>1, <2>3, <2>4, <3>1, <3>2, SignedHigh
  <2>7. QED
    BY <2>2, <2>3, <2>5, <2>6
<1>2. AluInv => FullProduct
  <2>1. SUFFICES ASSUME AluInv PROVE FullProduct
    OBVIOUS
  <2>2. rs1 \in Word /\ rs2 \in Word
    BY <2>1 DEF AluInv
  <2>3. \A o \in MulOps : Done(o) => rd = func_mul(o, rs1, rs2)
    BY <2>1 DEF Done, AluInv, Computed, Immediate, Basic, WordOps, MulOps, DivOps, DivWordOps
  <2>4. /\ func_mul("mul", rs1, rs2) = Wrap(rs1 * rs2)
        /\ func_mul("mulhu", rs1, rs2) = mulhu(rs1, rs2)
        /\ func_mul("mulh", rs1, rs2) = mulh(rs1, rs2)
        /\ func_mul("mulhsu", rs1, rs2) = mulhsu(rs1, rs2)
    BY Zenon DEF func_mul
  <2>5. /\ Done("mulhu") => rd = mulhu(rs1, rs2)
        /\ Done("mulh") => rd = mulh(rs1, rs2)
        /\ Done("mulhsu") => rd = mulhsu(rs1, rs2)
    BY <2>3, <2>4 DEF MulOps
  <2>6. QED
    BY <1>1, <2>2, <2>4, <2>5 DEF FullProduct
<1>3. QED
  BY <1>2, AluInvariant, PTL

-----------------------------------------------------------------------------
(* Shifts, bit by bit.                                                     *)

\* Powers of two within a register: each is positive and divides the higher ones.
LEMMA Powers ==
  ASSUME NEW k \in Nat, NEW n \in Nat, k + n <= XLen
  PROVE  /\ 2^k \in Nat /\ 2^k > 0 /\ 2^n \in Nat /\ 2^n > 0
         /\ 2^(k + n) = 2^k * 2^n /\ 2^k <= 2^(k + n)
         /\ n > 0 => \E h \in Nat : 2^n = 2 * h
<1>1. XLen \in Nat
  BY AluAssumption
<1>2. k \in 0 .. XLen /\ n \in 0 .. XLen
  BY <1>1
<1>3. 2^k \in Nat /\ 2^k > 0 /\ 2^n \in Nat /\ 2^n > 0 /\ 2^(k + n) = 2^k * 2^n
  BY <1>2, PowerAssumption
<1>4. PICK a, b \in Nat : a = 2^k /\ b = 2^n /\ b > 0
  BY <1>3
<1>5. a <= a * b
  BY <1>4
<1>6. ASSUME n > 0 PROVE \E h \in Nat : 2^n = 2 * h
  <2>1. n \in 1 .. XLen /\ n - 1 \in 0 .. XLen
    BY <1>1, <1>2, <1>6
  <2>2. 2^n = 2 * 2^(n - 1) /\ 2^(n - 1) \in Nat
    BY <2>1, PowerAssumption
  <2>3. QED
    BY <2>2
<1>7. QED
  BY <1>3, <1>4, <1>5, <1>6

\* Dividing twice is dividing by the product.
LEMMA DivDiv ==
  ASSUME NEW x \in Int, NEW a \in Nat, a > 0, NEW b \in Nat, b > 0
  PROVE  (x \div a) \div b = x \div (a * b)
<1>1. PICK q, r \in Int : x = q * a + r /\ 0 <= r /\ r < a /\ x \div a = q
  BY DivModOf
<1>2. PICK s, t \in Int : q = s * b + t /\ 0 <= t /\ t < b /\ q \div b = s
  BY DivModOf
<1>3. PICK c \in Nat : c = a * b
  OBVIOUS
<1>4. c > 0
  BY <1>3
<1>5. PICK u \in Int : u = t * a + r
  OBVIOUS
<1>6. 0 <= u /\ u < c
  <2>1. PICK d \in Nat : b = t + 1 + d
    <3>1. b - t - 1 \in Nat /\ b = t + 1 + (b - t - 1)
      BY <1>2
    <3>2. QED
      BY <3>1
  <2>2. c = t * a + a + d * a
    BY <1>3, <2>1
  <2>3. PICK e, f \in Nat : e = d * a /\ f = t * a
    <3>1. t \in Nat
      BY <1>2
    <3>2. d * a \in Nat /\ t * a \in Nat
      BY <3>1
    <3>3. QED
      BY <3>2
  <2>4. QED
    BY <1>1, <1>5, <2>2, <2>3
<1>7. x = s * c + u
  <2>1. x = (s * b + t) * a + r
    BY <1>1, <1>2
  <2>2. (s * b + t) * a = s * (a * b) + t * a
    OBVIOUS
  <2>3. PICK y, z \in Int : y = s * c /\ z = t * a
    OBVIOUS
  <2>4. QED
    BY <1>3, <1>5, <2>1, <2>2, <2>3
<1>8. (s * c + u) \div c = s
  BY <1>4, <1>6, DivMod
<1>9. QED
  BY <1>1, <1>2, <1>3, <1>7, <1>8

\* Dividing a multiple of the divisor, and a sum with one.
LEMMA DivMultiple ==
  ASSUME NEW x \in Int, NEW k \in Int, NEW a \in Nat, a > 0
  PROVE  (k * a + x) \div a = k + (x \div a) /\ (k * a) \div a = k
<1>1. PICK q, r \in Int : x = q * a + r /\ 0 <= r /\ r < a /\ x \div a = q
  BY DivModOf
<1>2. k * a + x = (k + q) * a + r /\ k + q \in Int
  BY <1>1
<1>3. ((k + q) * a + r) \div a = k + q
  BY <1>1, <1>2, DivMod
<1>4. (k * a + 0) \div a = k
  BY DivMod
<1>5. k * a + 0 = k * a
  OBVIOUS
<1>6. QED
  BY <1>1, <1>2, <1>3, <1>4, <1>5

\* Two numbers that differ by a multiple of 2^w have the same lowest w bits.
LEMMA SameBits ==
  ASSUME NEW x \in Int, NEW y \in Int, NEW w \in Nat, w <= XLen, NEW j \in Int,
         x = j * 2^w + y, NEW k \in Nat, k < w
  PROVE  BitOf(x, k) = BitOf(y, k)
<1>1. k + (w - k) = w /\ w - k \in Nat /\ w - k > 0
  OBVIOUS
<1>2. PICK a \in Nat : a = 2^k /\ a > 0
  BY <1>1, Powers
<1>3. PICK h \in Nat : 2^(w - k) = 2 * h
  BY <1>1, Powers, ZenonT(60)
<1>4. 2^w = a * (2 * h)
  BY <1>1, <1>2, <1>3, Powers
<1>5. x = (j * (2 * h)) * a + y /\ j * (2 * h) \in Int
  <2>1. j * (a * (2 * h)) = (j * (2 * h)) * a
    OBVIOUS
  <2>2. QED
    BY <1>4, <2>1
<1>6. x \div a = j * (2 * h) + (y \div a)
  <2>1. PICK i \in Int : i = j * (2 * h)
    BY <1>5
  <2>2. (i * a + y) \div a = i + (y \div a)
    BY <1>2, DivMultiple
  <2>3. QED
    BY <1>5, <2>1, <2>2
<1>7. PICK z \in Int : z = y \div a
  BY <1>2
<1>8. j * (2 * h) = (j * h) * 2 /\ j * h \in Int
  OBVIOUS
<1>9. ((j * h) * 2 + z) % 2 = z % 2
  BY <1>8, ModShift
<1>10. QED
  BY <1>2, <1>6, <1>7, <1>8, <1>9 DEF BitOf

\* What a multiplication by 2^n does to the bits.
LEMMA BitsUp ==
  ASSUME NEW x \in Int, NEW n \in Nat, n <= XLen, NEW k \in Nat, k <= XLen
  PROVE  BitOf(x * 2^n, k) = IF k < n THEN 0 ELSE BitOf(x, k - n)
<1>1. CASE k < n
  <2>1. k + (n - k) = n /\ n - k \in Nat /\ n - k > 0
    BY <1>1
  <2>2. PICK a \in Nat : a = 2^k /\ a > 0
    BY <2>1, Powers
  <2>3. PICK h \in Nat : 2^(n - k) = 2 * h
    BY <2>1, Powers, ZenonT(60)
  <2>4. 2^n = a * (2 * h)
    BY <2>1, <2>2, <2>3, Powers
  <2>5. x * 2^n = (x * (2 * h)) * a /\ x * (2 * h) \in Int
    <3>1. x * (a * (2 * h)) = (x * (2 * h)) * a
      OBVIOUS
    <3>2. QED
      BY <2>4, <3>1
  <2>6. (x * 2^n) \div a = x * (2 * h)
    BY <2>2, <2>5, DivMultiple
  <2>7. x * (2 * h) = (x * h) * 2 + 0 /\ x * h \in Int
    OBVIOUS
  <2>8. ((x * h) * 2 + 0) % 2 = 0
    BY <2>7, DivMod
  <2>9. QED
    BY <1>1, <2>2, <2>6, <2>7, <2>8 DEF BitOf
<1>2. CASE ~(k < n)
  <2>1. n + (k - n) = k /\ k - n \in Nat
    BY <1>2
  <2>2. PICK a, b \in Nat : a = 2^n /\ a > 0 /\ b = 2^(k - n) /\ b > 0 /\ 2^k = a * b
    BY <2>1, Powers
  <2>3. (x * a) \div (a * b) = ((x * a) \div a) \div b
    BY <2>2, DivDiv
  <2>4. (x * a) \div a = x
    BY <2>2, DivMultiple
  <2>5. QED
    BY <1>2, <2>2, <2>3, <2>4 DEF BitOf
<1>3. QED
  BY <1>1, <1>2

\* What a division by 2^n does to the bits of a number of w bits, or to those of a
\* negative one in two's complement.
LEMMA BitsDown ==
  ASSUME NEW w \in Nat, w <= XLen, NEW x \in Int, -(2^w) <= x, x < 2^w,
         NEW n \in Nat, n <= w, NEW k \in Nat, k < w
  PROVE  BitOf(x \div 2^n, k) =
           IF k + n < w THEN BitOf(x, k + n) ELSE IF x < 0 THEN 1 ELSE 0
<1>1. PICK a, b \in Nat : a = 2^n /\ a > 0 /\ b = 2^k /\ b > 0
  <2>1. n + 0 <= XLen /\ k + 0 <= XLen
    BY AluAssumption
  <2>2. QED
    BY <2>1, Powers
<1>2. (x \div a) \div b = x \div (a * b)
  BY <1>1, DivDiv
<1>3. CASE k + n < w
  <2>1. 2^(k + n) = a * b
    <3>1. n + k <= XLen /\ n + k = k + n
      BY <1>3, AluAssumption
    <3>2. 2^(n + k) = 2^n * 2^k
      BY <3>1, Powers
    <3>3. QED
      BY <1>1, <3>1, <3>2
  <2>2. QED
    BY <1>1, <1>2, <1>3, <2>1 DEF BitOf
<1>4. CASE ~(k + n < w)
  <2>1. PICK c \in Nat : c = a * b
    OBVIOUS
  <2>2. 2^w \in Nat /\ 2^w <= c
    <3>1. n + (w - n) = w /\ w - n \in Nat /\ (w - n) + (k - (w - n)) = k
          /\ k - (w - n) \in Nat
      BY <1>4
    <3>2. 2^w = a * 2^(w - n)
      BY <1>1, <3>1, Powers
    <3>3. 2^(w - n) \in Nat /\ 2^(w - n) <= b
      <4>1. PICK u, t \in Nat : u = w - n /\ t = k - (w - n) /\ u + t = k
        BY <3>1
      <4>2. u + t <= XLen
        BY <4>1, AluAssumption
      <4>3. 2^u \in Nat /\ 2^u <= 2^(u + t)
        BY <4>2, Powers
      <4>4. QED
        BY <1>1, <4>1, <4>3
    <3>4. PICK d \in Nat : d = 2^(w - n) /\ d <= b
      BY <3>3
    <3>5. PICK e \in Nat : b = d + e
      <4>1. b - d \in Nat /\ b = d + (b - d)
        BY <3>4
      <4>2. QED
        BY <4>1
    <3>6. a * b = a * d + a * e /\ a * e \in Nat /\ a * d \in Nat
      BY <3>5
    <3>7. QED
      BY <2>1, <3>2, <3>4, <3>6
  <2>3. PICK v \in Nat : v = 2^w
    BY <2>2
  <2>4. -c <= x /\ x < c /\ c > 0
    BY <2>2, <2>3, <1>1, <2>1
  <2>5. CASE x < 0
    <3>1. (0 - 1) * c + (x + c) = x /\ 0 <= x + c /\ x + c < c /\ x + c \in Int
      BY <2>4, <2>5
    <3>2. 0 - 1 \in Int
      OBVIOUS
    <3>3. ((0 - 1) * c + (x + c)) \div c = 0 - 1
      BY <2>4, <3>1, <3>2, DivMod
    <3>4. x \div c = 0 - 1
      BY <3>1, <3>3
    <3>5. (0 - 1) % 2 = 1
      <4>1. PICK s \in Int : s = 0 - 1
        BY <3>2
      <4>2. (s * 2 + 1) % 2 = 1
        BY DivMod
      <4>3. s * 2 + 1 = s
        BY <4>1
      <4>4. QED
        BY <4>1, <4>2, <4>3
    <3>6. QED
      BY <1>1, <1>2, <1>4, <2>1, <2>5, <3>4, <3>5 DEF BitOf
  <2>6. CASE ~(x < 0)
    <3>1. 0 * c + x = x /\ 0 <= x /\ x < c
      BY <2>4, <2>6
    <3>2. (0 * c + x) \div c = 0
      BY <2>4, <3>1, DivMod
    <3>3. x \div c = 0 /\ 0 % 2 = 0
      BY <3>1, <3>2
    <3>4. QED
      BY <1>1, <1>2, <1>4, <2>1, <2>6, <3>3 DEF BitOf
  <2>7. QED
    BY <2>5, <2>6
<1>5. QED
  BY <1>3, <1>4

\* The highest bit of a number of w bits tells whether it is negative in two's complement.
LEMMA TopBit ==
  ASSUME NEW w \in Nat, w > 0, w <= XLen, NEW x \in Int, 0 <= x, x < 2^w
  PROVE  BitOf(x, w - 1) = IF 2 * x < 2^w THEN 0 ELSE 1
<1>1. w - 1 \in Nat /\ (w - 1) + 1 = w /\ w \in 1 .. XLen
  BY AluAssumption
<1>2. 2^w = 2 * 2^(w - 1) /\ 2^(w - 1) \in Nat /\ 2^(w - 1) > 0
  BY <1>1, PowerAssumption, Powers
<1>3. PICK h \in Nat : h = 2^(w - 1) /\ h > 0 /\ 2^w = 2 * h
  BY <1>2
<1>4. CASE 2 * x < 2^w
  <2>1. 0 * h + x = x /\ x < h
    BY <1>3, <1>4
  <2>2. (0 * h + x) \div h = 0
    BY <1>3, <2>1, DivMod
  <2>3. x \div h = 0 /\ 0 % 2 = 0
    BY <2>1, <2>2
  <2>4. QED
    BY <1>3, <1>4, <2>3 DEF BitOf
<1>5. CASE ~(2 * x < 2^w)
  <2>1. 1 * h + (x - h) = x /\ 0 <= x - h /\ x - h < h /\ x - h \in Int
    BY <1>3, <1>5
  <2>2. (1 * h + (x - h)) \div h = 1
    BY <1>3, <2>1, DivMod
  <2>3. x \div h = 1 /\ 1 % 2 = 1
    BY <2>1, <2>2
  <2>4. QED
    BY <1>3, <1>5, <2>3 DEF BitOf
<1>6. QED
  BY <1>4, <1>5

\* The bits of a word are those of the number it holds as an int64_t or an int32_t.
LEMMA NumberBits ==
  ASSUME NEW a \in Word, NEW k \in Nat
  PROVE  /\ k < XLen => BitOf(Signed(a), k) = BitOf(a, k)
         /\ k < WLen => BitOf(int32(a), k) = BitOf(a, k) /\ BitOf(uint32(a), k) = BitOf(a, k)
<1>1. WLen \in Nat /\ XLen \in Nat /\ WLen <= XLen /\ a \in Int /\ P \in Nat /\ P = 2^WLen
      /\ AddrSpace \in Nat /\ AddrSpace = 2^XLen
  BY AluAssumption, WordAssumption, Halves DEF Word, P
<1>2. ASSUME k < XLen PROVE BitOf(Signed(a), k) = BitOf(a, k)
  <2>1. Signed(a) = 0 * AddrSpace + a \/ Signed(a) = (0 - 1) * AddrSpace + a
    BY <1>1 DEF Signed
  <2>2. PICK j \in Int : Signed(a) = j * 2^XLen + a
    BY <1>1, <2>1
  <2>3. Signed(a) \in Int
    BY SignedWrap
  <2>4. QED
    BY <1>1, <1>2, <2>2, <2>3, SameBits
<1>3. ASSUME NEW x \in Int, Cong(x, a), k < WLen PROVE BitOf(x, k) = BitOf(a, k)
  <2>1. PICK j \in Int : x = a + j * P
    BY <1>3 DEF Cong
  <2>2. PICK i \in Int : i = j * P
    BY <1>1
  <2>3. x = j * 2^WLen + a
    BY <1>1, <2>1, <2>2
  <2>4. QED
    BY <1>1, <1>3, <2>3, SameBits
<1>4. int32(a) \in Int /\ uint32(a) \in Int /\ Cong(int32(a), a) /\ Cong(uint32(a), a)
  BY <1>1, LowerHalf
<1>5. QED
  BY <1>2, <1>3, <1>4

\* A conversion to uint64_t keeps all bits, one to int32_t the lower half.
LEMMA ConvertedBits ==
  ASSUME NEW x \in Int, NEW k \in Nat
  PROVE  /\ k < XLen => BitOf(Wrap(x), k) = BitOf(x, k)
         /\ k < WLen => BitOf(Wrap(int32(x)), k) = BitOf(x, k)
<1>1. WLen \in Nat /\ XLen \in Nat /\ WLen <= XLen /\ P \in Nat /\ P = 2^WLen
      /\ AddrSpace \in Nat /\ AddrSpace = 2^XLen /\ AddrSpace > 0
  BY AluAssumption, WordAssumption, Halves DEF P
<1>2. ASSUME NEW y \in Int, k < XLen PROVE BitOf(Wrap(y), k) = BitOf(y, k)
  <2>1. PICK q, r \in Int : y = q * AddrSpace + r /\ y % AddrSpace = r
    BY <1>1, DivModOf
  <2>2. y = q * 2^XLen + r
    BY <1>1, <2>1
  <2>3. BitOf(y, k) = BitOf(r, k)
    BY <1>1, <1>2, <2>2, SameBits
  <2>4. QED
    BY <2>1, <2>3 DEF Wrap
<1>3. ASSUME k < WLen PROVE BitOf(Wrap(int32(x)), k) = BitOf(x, k)
  <2>1. int32(x) \in Int /\ Cong(int32(x), x)
    BY LowerHalf
  <2>2. PICK j \in Int : int32(x) = x + j * P
    BY <2>1 DEF Cong
  <2>3. PICK i \in Int : i = j * P
    BY <1>1
  <2>4. int32(x) = j * 2^WLen + x
    BY <1>1, <2>2, <2>3
  <2>5. BitOf(int32(x), k) = BitOf(x, k)
    BY <1>1, <1>3, <2>1, <2>4, SameBits
  <2>6. k < XLen
    BY <1>1, <1>3
  <2>7. QED
    BY <1>2, <2>1, <2>5, <2>6
<1>4. QED
  BY <1>2, <1>3

\* sll, srl and sra on their whole registers.
LEMMA RegisterShifts ==
  ASSUME NEW a \in Word, NEW n \in Nat, n < XLen, NEW k \in Nat, k < XLen
  PROVE  /\ BitOf(Sll(a, n), k) = IF k < n THEN 0 ELSE BitOf(a, k - n)
         /\ BitOf(Srl(a, n), k) = IF k + n < XLen THEN BitOf(a, k + n) ELSE 0
         /\ BitOf(Sra(a, n), k) =
              IF k + n < XLen THEN BitOf(a, k + n) ELSE BitOf(a, XLen - 1)
<1>1. XLen \in Nat /\ XLen > 0 /\ a \in Int /\ 0 <= a /\ a < AddrSpace /\ AddrSpace = 2^XLen
      /\ AddrSpace \in Nat
  BY AluAssumption, WordAssumption DEF Word
<1>2. PICK d \in Nat : d = 2^n /\ d > 0
  <2>1. n \in 0 .. XLen
    BY <1>1
  <2>2. QED
    BY <2>1, PowerAssumption
<1>3. a * 2^n \in Int /\ BitOf(a * 2^n, k) = IF k < n THEN 0 ELSE BitOf(a, k - n)
  BY <1>1, <1>2, BitsUp
<1>4. BitOf(Sll(a, n), k) = IF k < n THEN 0 ELSE BitOf(a, k - n)
  BY <1>3, ConvertedBits DEF Sll
<1>5. BitOf(Srl(a, n), k) = IF k + n < XLen THEN BitOf(a, k + n) ELSE 0
  <2>1. -(2^XLen) <= a /\ a < 2^XLen /\ ~(a < 0)
    BY <1>1
  <2>2. BitOf(a \div 2^n, k) =
          IF k + n < XLen THEN BitOf(a, k + n) ELSE IF a < 0 THEN 1 ELSE 0
    BY <1>1, <2>1, BitsDown
  <2>3. QED
    BY <2>1, <2>2 DEF Srl
<1>6. BitOf(Sra(a, n), k) = IF k + n < XLen THEN BitOf(a, k + n) ELSE BitOf(a, XLen - 1)
  <2>1. PICK x \in Int : x = Signed(a)
    BY SignedWrap
  <2>2. -(2^XLen) <= x /\ x < 2^XLen /\ (x < 0 <=> ~(2 * a < AddrSpace))
    BY <1>1, <2>1 DEF Signed
  <2>3. BitOf(x \div 2^n, k) =
          IF k + n < XLen THEN BitOf(x, k + n) ELSE IF x < 0 THEN 1 ELSE 0
    <3>1. -(2^XLen) <= x /\ x < 2^XLen /\ n <= XLen /\ XLen <= XLen
      BY <1>1, <2>2
    <3>2. QED
      BY <1>1, <3>1, BitsDown, ZenonT(60)
  <2>4. k + n < XLen => BitOf(x, k + n) = BitOf(a, k + n)
    BY <2>1, NumberBits
  <2>5. BitOf(a, XLen - 1) = IF 2 * a < AddrSpace THEN 0 ELSE 1
    BY <1>1, TopBit
  <2>6. x \div 2^n \in Int
    BY <1>2
  <2>7. BitOf(Sra(a, n), k) = BitOf(x \div 2^n, k)
    BY <2>1, <2>6, ConvertedBits DEF Sra
  <2>8. CASE x < 0
    BY <2>2, <2>3, <2>4, <2>5, <2>7, <2>8
  <2>9. CASE ~(x < 0)
    BY <2>2, <2>3, <2>4, <2>5, <2>7, <2>9
  <2>10. QED
    BY <2>8, <2>9
<1>7. QED
  BY <1>4, <1>5, <1>6

\* sllw, srlw and sraw on the lower halves.
LEMMA HalfShifts ==
  ASSUME NEW a \in Word, NEW m \in Nat, m < WLen, NEW k \in Nat, k < WLen
  PROVE  /\ BitOf(Wrap(int32(a * 2^m)), k) = IF k < m THEN 0 ELSE BitOf(a, k - m)
         /\ BitOf(Wrap(int32(Srl(uint32(a), m))), k) =
              IF k + m < WLen THEN BitOf(a, k + m) ELSE 0
         /\ BitOf(Wrap(int32(int32(a) \div 2^m)), k) =
              IF k + m < WLen THEN BitOf(a, k + m) ELSE BitOf(a, WLen - 1)
<1>1. WLen \in Nat /\ WLen > 0 /\ WLen <= XLen /\ XLen \in Nat /\ a \in Int /\ P \in Nat
      /\ P = 2^WLen
  BY AluAssumption, WordAssumption, Halves DEF Word, P
<1>2. PICK d \in Nat : d = 2^m /\ d > 0
  <2>1. m \in 0 .. XLen
    BY <1>1
  <2>2. QED
    BY <2>1, PowerAssumption
<1>3. a * 2^m \in Int /\ BitOf(a * 2^m, k) = IF k < m THEN 0 ELSE BitOf(a, k - m)
  <2>1. m <= XLen /\ k <= XLen
    BY <1>1
  <2>2. QED
    BY <1>1, <1>2, <2>1, BitsUp
<1>4. BitOf(Wrap(int32(a * 2^m)), k) = IF k < m THEN 0 ELSE BitOf(a, k - m)
  BY <1>3, ConvertedBits
<1>5. PICK u, x \in Int : u = uint32(a) /\ x = int32(a) /\ 0 <= u /\ u < P
                          /\ x = (IF 2 * u < P THEN u ELSE u - P)
  <2>1. /\ uint32(a) \in 0 .. (P - 1) /\ int32(a) \in Int
        /\ int32(a) = IF 2 * uint32(a) < P THEN uint32(a) ELSE uint32(a) - P
    BY <1>1, LowerHalf
  <2>2. uint32(a) \in Int /\ 0 <= uint32(a) /\ uint32(a) < P
    BY <1>1, <2>1
  <2>3. QED
    BY <2>1, <2>2
<1>6. k + m < WLen => BitOf(u, k + m) = BitOf(a, k + m) /\ BitOf(x, k + m) = BitOf(a, k + m)
  <2>1. PICK t \in Nat : t = k + m
    OBVIOUS
  <2>2. t < WLen => BitOf(int32(a), t) = BitOf(a, t) /\ BitOf(uint32(a), t) = BitOf(a, t)
    BY NumberBits
  <2>3. QED
    BY <1>5, <2>1, <2>2
<1>7. BitOf(Wrap(int32(Srl(uint32(a), m))), k) = IF k + m < WLen THEN BitOf(a, k + m) ELSE 0
  <2>1. -(2^WLen) <= u /\ u < 2^WLen /\ ~(u < 0)
    BY <1>1, <1>5
  <2>2. BitOf(u \div 2^m, k) =
          IF k + m < WLen THEN BitOf(u, k + m) ELSE IF u < 0 THEN 1 ELSE 0
    BY <1>1, <2>1, BitsDown
  <2>3. u \div 2^m \in Int
    BY <1>2
  <2>4. BitOf(Wrap(int32(u \div 2^m)), k) = BitOf(u \div 2^m, k)
    BY <2>3, ConvertedBits
  <2>5. Srl(uint32(a), m) = u \div 2^m
    BY <1>5 DEF Srl
  <2>6. QED
    BY <1>6, <2>1, <2>2, <2>4, <2>5
<1>8. BitOf(Wrap(int32(int32(a) \div 2^m)), k) =
        IF k + m < WLen THEN BitOf(a, k + m) ELSE BitOf(a, WLen - 1)
  <2>1. -(2^WLen) <= x /\ x < 2^WLen /\ (x < 0 <=> ~(2 * u < P))
    BY <1>1, <1>5
  <2>2. BitOf(x \div 2^m, k) =
          IF k + m < WLen THEN BitOf(x, k + m) ELSE IF x < 0 THEN 1 ELSE 0
    <3>1. -(2^WLen) <= x /\ x < 2^WLen /\ m <= WLen /\ WLen \in Nat /\ WLen <= XLen
      BY <1>1, <2>1
    <3>2. QED
      BY <3>1, BitsDown
  <2>3. x \div 2^m \in Int
    BY <1>2
  <2>4. BitOf(Wrap(int32(x \div 2^m)), k) = BitOf(x \div 2^m, k)
    BY <2>3, ConvertedBits
  <2>5. BitOf(u, WLen - 1) = IF 2 * u < P THEN 0 ELSE 1
    BY <1>1, <1>5, TopBit
  <2>6. BitOf(u, WLen - 1) = BitOf(a, WLen - 1)
    <3>1. WLen - 1 \in Nat /\ WLen - 1 < WLen
      BY <1>1
    <3>2. QED
      BY <1>5, <3>1, NumberBits
  <2>7. CASE x < 0
    BY <1>5, <1>6, <2>1, <2>2, <2>4, <2>5, <2>6, <2>7
  <2>8. CASE ~(x < 0)
    BY <1>5, <1>6, <2>1, <2>2, <2>4, <2>5, <2>6, <2>8
  <2>9. QED
    BY <2>7, <2>8
<1>9. QED
  BY <1>4, <1>7, <1>8

\* The six shifts of registers move every bit to its place, whatever the width, the
\* operand and the amount (interp.c, func_sll to func_sraw).
THEOREM Shifts == Spec => []ShiftsMoveBits
<1>1. AluInv => ShiftsMoveBits
  <2>1. SUFFICES ASSUME AluInv PROVE ShiftsMoveBits
    OBVIOUS
  <2>2. rs1 \in Word /\ rs2 \in Word
    BY <2>1 DEF AluInv
  <2>3. WLen \in Nat /\ WLen > 0 /\ XLen \in Nat /\ XLen > 0 /\ rs2 \in Int
    BY <2>2, AluAssumption, WordAssumption DEF Word
  <2>4. PICK n, m \in Nat : n = rs2 % XLen /\ n < XLen /\ m = rs2 % WLen /\ m < WLen
    BY <2>3
  <2>5. /\ \A o \in Basic : Done(o) => rd = func_basic(o, rs1, rs2)
        /\ \A o \in WordOps : Done(o) => rd = func_word(o, rs1, rs2)
    BY <2>1 DEF Done, AluInv, Computed, Immediate, Basic, WordOps, MulOps, DivOps, DivWordOps
  <2>6. /\ func_basic("sll", rs1, rs2) = Sll(rs1, rs2 % XLen)
        /\ func_basic("srl", rs1, rs2) = Srl(rs1, rs2 % XLen)
        /\ func_basic("sra", rs1, rs2) = Sra(rs1, rs2 % XLen)
    BY Zenon DEF func_basic
  <2>7. /\ func_word("sllw", rs1, rs2) = Wrap(int32(rs1 * 2^(rs2 % WLen)))
        /\ func_word("srlw", rs1, rs2) = Wrap(int32(Srl(uint32(rs1), rs2 % WLen)))
        /\ func_word("sraw", rs1, rs2) = Wrap(int32(int32(rs1) \div 2^(rs2 % WLen)))
    BY Zenon DEF func_word
  <2>8. /\ Done("sll") => rd = Sll(rs1, n)
        /\ Done("srl") => rd = Srl(rs1, n)
        /\ Done("sra") => rd = Sra(rs1, n)
    BY <2>4, <2>5, <2>6 DEF Basic
  <2>9. /\ Done("sllw") => rd = Wrap(int32(rs1 * 2^m))
        /\ Done("srlw") => rd = Wrap(int32(Srl(uint32(rs1), m)))
        /\ Done("sraw") => rd = Wrap(int32(int32(rs1) \div 2^m))
    BY <2>4, <2>5, <2>7 DEF WordOps
  <2>10. \A k \in 0 .. (XLen - 1) : k \in Nat /\ k < XLen
    BY <2>3
  <2>11. \A k \in 0 .. (WLen - 1) : k \in Nat /\ k < WLen
    BY <2>3
  <2>12. /\ Done("sll") => MovedUp(rs1, n, XLen)
         /\ Done("srl") => MovedDown(rs1, n, XLen, 0)
         /\ Done("sra") => MovedDown(rs1, n, XLen, BitOf(rs1, XLen - 1))
    BY <2>2, <2>4, <2>8, <2>10, RegisterShifts DEF MovedUp, MovedDown
  <2>13. /\ Done("sllw") => MovedUp(rs1, m, WLen)
         /\ Done("srlw") => MovedDown(rs1, m, WLen, 0)
         /\ Done("sraw") => MovedDown(rs1, m, WLen, BitOf(rs1, WLen - 1))
    BY <2>2, <2>4, <2>9, <2>11, HalfShifts DEF MovedUp, MovedDown
  <2>14. QED
    BY <2>4, <2>12, <2>13 DEF ShiftsMoveBits
<1>2. QED
  BY <1>1, AluInvariant, PTL

-----------------------------------------------------------------------------
(* Types.                                                                  *)

\* A set of natural numbers has a least one.
LEMMA Least ==
  ASSUME NEW S, S \subseteq Nat, S # {}
  PROVE  \E i \in S : \A j \in S : i <= j
<1> DEFINE Less == {p \in Nat \X Nat : p[1] < p[2]}
<1>1. IsWellFoundedOn(Less, Nat)
  BY NatLessThanWellFounded DEF OpToRel
<1> HIDE DEF Less
<1>2. PICK i \in S : \A j \in S : ~(<<j, i>> \in Less)
  BY <1>1, WFMin, Zenon
<1>3. ASSUME NEW j \in S PROVE i <= j
  <2>1. i \in Nat /\ j \in Nat
    OBVIOUS
  <2>2. j < i => <<j, i>> \in Less
    BY <2>1 DEF Less
  <2>3. QED
    BY <1>2, <2>1, <2>2
<1>4. QED
  BY <1>3

\* The sums of the bits up to each place.
Sums(bit, g) ==
  g = [n \in 0 .. XLen |-> IF n = 0 THEN 0 ELSE g[n - 1] + bit[n - 1] * 2^(n - 1)]

\* There are such sums: a list of them can be continued by one more place.
LEMMA SumsExist ==
  ASSUME NEW bit
  PROVE  \E g : Sums(bit, g)
<1> DEFINE Upto(m, g) ==
      \A n \in 0 .. m : g[n] = IF n = 0 THEN 0 ELSE g[n - 1] + bit[n - 1] * 2^(n - 1)
    Long == {m \in 0 .. XLen : ~ \E g : Upto(m, g)}
<1>1. XLen \in Nat
  BY AluAssumption
<1>2. Long = {}
  <2>1. SUFFICES ASSUME Long # {} PROVE FALSE
    OBVIOUS
  <2>2. PICK m \in Long : \A j \in Long : m <= j
    <3>1. Long \subseteq Nat
      OBVIOUS
    <3> HIDE DEF Long
    <3>2. QED
      BY <2>1, <3>1, Least
  <2>3. m \in 0 .. XLen /\ ~ \E g : Upto(m, g)
    OBVIOUS
  <2>4. CASE m = 0
    <3> DEFINE z == [n \in {0} |-> 0]
    <3>1. Upto(0, z)
      OBVIOUS
    <3>2. QED
      BY <2>3, <2>4, <3>1
  <2>5. CASE m # 0
    <3>1. m - 1 \in 0 .. XLen /\ m - 1 < m /\ m \in Nat
      BY <1>1, <2>3, <2>5
    <3>2. m - 1 \notin Long
      BY <2>2, <3>1
    <3>3. PICK g : Upto(m - 1, g)
      BY <3>1, <3>2
    <3> DEFINE h == [n \in 0 .. m |-> IF n = m THEN g[m - 1] + bit[m - 1] * 2^(m - 1) ELSE g[n]]
    <3>4. ASSUME NEW n \in 0 .. m
          PROVE  h[n] = IF n = 0 THEN 0 ELSE h[n - 1] + bit[n - 1] * 2^(n - 1)
      <4>1. CASE n = m
        <5>1. m - 1 \in 0 .. m /\ m - 1 # m
          BY <3>1
        <5>2. QED
          BY <4>1, <5>1, <2>5
      <4>2. CASE n # m
        <5>1. n \in 0 .. (m - 1) /\ (n # 0 => n - 1 \in 0 .. m /\ n - 1 # m)
          BY <3>1, <4>2
        <5>2. QED
          BY <3>3, <4>2, <5>1
      <4>3. QED
        BY <4>1, <4>2
    <3>5. Upto(m, h)
      BY <3>4
    <3>6. QED
      BY <2>3, <3>5
  <2>6. QED
    BY <2>4, <2>5
<1>3. PICK g : Upto(XLen, g)
  <2>1. XLen \in 0 .. XLen
    BY <1>1
  <2>2. QED
    BY <1>2, <2>1
<1> DEFINE f == [n \in 0 .. XLen |-> g[n]]
<1>4. \A n \in 0 .. XLen : f[n] = IF n = 0 THEN 0 ELSE f[n - 1] + bit[n - 1] * 2^(n - 1)
  <2>1. \A n \in 0 .. XLen : n # 0 => n - 1 \in 0 .. XLen
    BY <1>1
  <2>2. QED
    BY <1>3, <2>1
<1>5. Sums(bit, f)
  BY <1>4 DEF Sums
<1>6. QED
  BY <1>5

\* A number of XLen bits is a word.
LEMMA BitsMakeWord ==
  ASSUME NEW bit \in [Places -> {0, 1}]
  PROVE  Number(bit) \in Word
<1>1. XLen \in Nat /\ AddrSpace = 2^XLen
  BY AluAssumption
<1>2. PICK g : Sums(bit, g) /\ Number(bit) = g[XLen]
  <2>1. Number(bit) = (CHOOSE g : Sums(bit, g))[XLen]
    BY DEF Number, Sums
  <2>2. QED
    BY <2>1, SumsExist
<1>3. \A n \in 0 .. XLen : g[n] = IF n = 0 THEN 0 ELSE g[n - 1] + bit[n - 1] * 2^(n - 1)
  BY <1>2 DEF Sums
<1> DEFINE Large == {n \in 0 .. XLen : ~(g[n] \in Nat /\ g[n] < 2^n)}
<1>4. Large = {}
  <2>1. SUFFICES ASSUME Large # {} PROVE FALSE
    OBVIOUS
  <2>2. PICK n \in Large : \A j \in Large : n <= j
    <3>1. Large \subseteq Nat
      OBVIOUS
    <3> HIDE DEF Large
    <3>2. QED
      BY <2>1, <3>1, Least
  <2>3. n \in 0 .. XLen /\ ~(g[n] \in Nat /\ g[n] < 2^n)
    OBVIOUS
  <2>4. n # 0
    <3>1. SUFFICES ASSUME n = 0 PROVE FALSE
      OBVIOUS
    <3>2. 2^n = 1
      BY <3>1, PowerAssumption
    <3>3. g[n] = 0
      BY <1>3, <2>3, <3>1
    <3>4. ~(0 \in Nat /\ 0 < 1)
      BY <2>3, <3>2, <3>3
    <3>5. QED
      BY <3>4
  <2>5. n - 1 \in 0 .. XLen /\ n - 1 < n /\ n - 1 \in Places /\ n \in 1 .. XLen
    BY <1>1, <2>3, <2>4 DEF Places
  <2>6. n - 1 \notin Large
    BY <2>2, <2>5
  <2>7. g[n - 1] \in Nat /\ g[n - 1] < 2^(n - 1)
    BY <2>5, <2>6
  <2>8. bit[n - 1] \in {0, 1}
    BY <2>5
  <2>9. 2^(n - 1) \in Nat /\ 2^n \in Nat /\ 2^n = 2 * 2^(n - 1)
    BY <2>3, <2>5, PowerAssumption
  <2>10. g[n] = g[n - 1] + bit[n - 1] * 2^(n - 1)
    BY <1>3, <2>3, <2>4
  <2>11. PICK s \in Nat, v \in Nat, t \in Nat :
           s = g[n - 1] /\ v = 2^(n - 1) /\ t = 2^n /\ s < v /\ t = 2 * v
    BY <2>7, <2>9
  <2>12. g[n] = s \/ g[n] = s + v
    BY <2>8, <2>10, <2>11
  <2>13. QED
    BY <2>3, <2>11, <2>12
<1>5. g[XLen] \in Nat /\ g[XLen] < 2^XLen
  <2>1. XLen \in 0 .. XLen
    BY <1>1
  <2>2. QED
    BY <1>4, <2>1
<1>6. QED
  BY <1>1, <1>2, <1>5 DEF Word
\* The bitwise operations return words.
LEMMA BitwiseWords ==
  ASSUME NEW a \in Word, NEW b \in Word
  PROVE  And(a, b) \in Word /\ Or(a, b) \in Word /\ Xor(a, b) \in Word
<1>1. XLen \in Nat /\ a \in Nat /\ b \in Nat
  BY AluAssumption, WordAssumption DEF Word
<1>2. ASSUME NEW k \in Places, NEW v \in Nat PROVE BitOf(v, k) \in {0, 1}
  <2>1. k \in 0 .. XLen
    BY <1>1 DEF Places
  <2>2. PICK d \in Nat : d = 2^k /\ d > 0
    BY <2>1, PowerAssumption
  <2>3. v \div d \in Int
    BY <2>2
  <2>4. (v \div d) % 2 \in {0, 1}
    BY <2>3
  <2>5. QED
    BY <2>2, <2>4 DEF BitOf
<1>3. [k \in Places |-> BitOf(a, k) * BitOf(b, k)] \in [Places -> {0, 1}]
  <2>1. \A i, j \in {0, 1} : i * j \in {0, 1}
    OBVIOUS
  <2>2. QED
    BY <1>1, <1>2, <2>1
<1>4. [k \in Places |-> IF BitOf(a, k) + BitOf(b, k) = 0 THEN 0 ELSE 1] \in [Places -> {0, 1}]
  OBVIOUS
<1>5. [k \in Places |-> (BitOf(a, k) + BitOf(b, k)) % 2] \in [Places -> {0, 1}]
  <2>1. \A i, j \in {0, 1} : (i + j) % 2 \in {0, 1}
    OBVIOUS
  <2>2. QED
    BY <1>1, <1>2, <2>1
<1>6. QED
  BY <1>3, <1>4, <1>5, BitsMakeWord DEF And, Or, Xor

\* A quotient of words is a word.
LEMMA QuotientWord ==
  ASSUME NEW a \in Word, NEW d \in Nat, d > 0
  PROVE  a \div d \in Word
<1>1. a \in Nat /\ AddrSpace \in Nat /\ a < AddrSpace
  BY WordAssumption DEF Word
<1>2. PICK q, r \in Int : a = q * d + r /\ 0 <= r /\ r < d /\ a \div d = q
  BY <1>1, DivModOf
<1>3. 0 <= q
  <2>1. SUFFICES ASSUME q < 0 PROVE FALSE
    BY <1>2
  <2>2. PICK g \in Nat : q = -g /\ g >= 1
    <3>1. -q \in Nat /\ q = -(-q) /\ -q >= 1
      BY <1>2, <2>1
    <3>2. QED
      BY <3>1
  <2>3. PICK c \in Nat : g = c + 1
    <3>1. g - 1 \in Nat /\ g = (g - 1) + 1
      BY <2>2
    <3>2. QED
      BY <3>1
  <2>4. q * d = -(c * d) - d /\ c * d \in Nat
    BY <2>2, <2>3
  <2>5. QED
    BY <1>1, <1>2, <2>4
<1>4. q <= q * d
  <2>1. PICK c \in Nat : d = c + 1
    <3>1. d - 1 \in Nat /\ d = (d - 1) + 1
      OBVIOUS
    <3>2. QED
      BY <3>1
  <2>2. q * d = q * c + q /\ q * c \in Nat
    BY <1>2, <1>3, <2>1
  <2>3. QED
    BY <1>2, <2>2
<1>5. q * d \in Int /\ q < AddrSpace
  BY <1>1, <1>2, <1>4
<1>6. QED
  BY <1>2, <1>3, <1>5, <1>1 DEF Word

\* The register forms return words.
LEMMA BasicWords ==
  ASSUME NEW a \in Word, NEW b \in Word, NEW o \in Basic
  PROVE  func_basic(o, a, b) \in Word
<1>1. a \in Int /\ b \in Int /\ Signed(a) \in Int /\ 0 \in Word /\ 1 \in Word
  BY SignedWrap, WordAssumption DEF Word
<1>2. PICK n \in Nat, d \in Nat : n = b % XLen /\ d = 2^n /\ d > 0
  <2>1. XLen \in Nat /\ XLen > 0
    BY AluAssumption
  <2>2. b % XLen \in Nat /\ b % XLen < XLen
    BY <1>1, <2>1
  <2>3. b % XLen \in 0 .. XLen
    BY <2>1, <2>2
  <2>4. QED
    BY <2>2, <2>3, PowerAssumption
<1>3. a * d \in Int /\ Signed(a) \div d \in Int
  BY <1>1, <1>2
<1>4. CASE o \in {"add", "sub"}
  <2>1. a + b \in Int /\ a - b \in Int
    BY <1>1
  <2>2. func_basic("add", a, b) = Wrap(a + b) /\ func_basic("sub", a, b) = Wrap(a - b)
    BY Zenon DEF func_basic
  <2>3. QED
    BY <1>4, <2>1, <2>2, SignedWrap
<1>5. CASE o = "sll"
  <2>1. func_basic("sll", a, b) = Wrap(a * d)
    BY <1>2, Zenon DEF func_basic, Sll
  <2>2. QED
    BY <1>3, <1>5, <2>1, SignedWrap
<1>6. CASE o = "srl"
  <2>1. func_basic("srl", a, b) = a \div d
    BY <1>2, Zenon DEF func_basic, Srl
  <2>2. QED
    BY <1>2, <1>6, <2>1, QuotientWord
<1>7. CASE o = "sra"
  <2>1. func_basic("sra", a, b) = Wrap(Signed(a) \div d)
    BY <1>2, Zenon DEF func_basic, Sra
  <2>2. QED
    BY <1>3, <1>7, <2>1, SignedWrap
<1>8. CASE o \in {"slt", "sltu"}
  <2>1. /\ func_basic("slt", a, b) = (IF Signed(a) < Signed(b) THEN 1 ELSE 0)
        /\ func_basic("sltu", a, b) = (IF a < b THEN 1 ELSE 0)
    BY Zenon DEF func_basic
  <2>2. QED
    BY <1>1, <1>8, <2>1
<1>9. CASE o \in {"xor", "or", "and"}
  <2>1. /\ func_basic("xor", a, b) = Xor(a, b) /\ func_basic("or", a, b) = Or(a, b)
        /\ func_basic("and", a, b) = And(a, b)
    BY Zenon DEF func_basic
  <2>2. QED
    BY <1>9, <2>1, BitwiseWords
<1>10. QED
  BY <1>4, <1>5, <1>6, <1>7, <1>8, <1>9 DEF Basic

\* The multiplications return words.
LEMMA MulWords ==
  ASSUME NEW a \in Word, NEW b \in Word, NEW o \in MulOps
  PROVE  func_mul(o, a, b) \in Word
<1>1. a * b \in Int /\ Wrap(a * b) \in Word
  <2>1. a * b \in Int
    BY WordAssumption DEF Word
  <2>2. QED
    BY <2>1, SignedWrap
<1>2. ASSUME NEW c \in Word PROVE Magnitude(c) \in Word
  <2>1. c \in Int
    BY WordAssumption DEF Word
  <2>2. Wrap(-c) \in Word
    BY <2>1, SignedWrap
  <2>3. QED
    BY <2>2 DEF Magnitude
<1>3. ASSUME NEW negate \in BOOLEAN, NEW res \in Word, NEW low
      PROVE  Negated(negate, res, low) \in Word
  <2>1. UINT64_MAX - res + (IF low = 0 THEN 1 ELSE 0) \in Int
    BY WordAssumption DEF Word, UINT64_MAX
  <2>2. QED
    BY <2>1, SignedWrap DEF Negated
<1>4. mulhu(a, b) \in Word
  BY HighHalf
<1>5. mulh(a, b) \in Word
  <2>1. mulhu(Magnitude(a), Magnitude(b)) \in Word
    BY <1>2, HighHalf
  <2>2. ((Signed(a) < 0) # (Signed(b) < 0)) \in BOOLEAN
    OBVIOUS
  <2>3. QED
    BY <1>3, <2>1, <2>2, Zenon DEF mulh
<1>6. mulhsu(a, b) \in Word
  <2>1. mulhu(Magnitude(a), b) \in Word
    BY <1>2, HighHalf
  <2>2. (Signed(a) < 0) \in BOOLEAN
    OBVIOUS
  <2>3. QED
    BY <1>3, <2>1, <2>2, Zenon DEF mulhsu
<1>7. /\ func_mul("mul", a, b) = Wrap(a * b) /\ func_mul("mulh", a, b) = mulh(a, b)
      /\ func_mul("mulhsu", a, b) = mulhsu(a, b) /\ func_mul("mulhu", a, b) = mulhu(a, b)
  BY Zenon DEF func_mul
<1>8. QED
  BY <1>1, <1>4, <1>5, <1>6, <1>7 DEF MulOps
\* The divisions return words.
LEMMA DivWords ==
  ASSUME NEW a \in Word, NEW b \in Word, NEW o \in DivOps
  PROVE  func_div(o, a, b) \in Word
<1>1. UINT64_MAX \in Word /\ INT64_MIN \in Word /\ 0 \in Word
  BY Limits
<1>2. a \in Nat /\ b \in Nat /\ AddrSpace \in Nat /\ b < AddrSpace
  BY WordAssumption DEF Word
<1>3. CASE b = 0
  <2>1. func_div(o, a, b) = UINT64_MAX \/ func_div(o, a, b) = a
    BY <1>3, Zenon DEF func_div
  <2>2. QED
    BY <1>1, <2>1
<1>4. CASE b # 0 /\ o = "divu"
  <2>1. func_div("divu", a, b) = a \div b
    BY <1>4, Zenon DEF func_div
  <2>2. b > 0
    BY <1>2, <1>4
  <2>3. QED
    BY <1>2, <1>4, <2>1, <2>2, QuotientWord
<1>5. CASE b # 0 /\ o = "remu"
  <2>1. func_div("remu", a, b) = a % b
    BY <1>5, Zenon DEF func_div
  <2>2. a % b \in 0 .. (b - 1)
    BY <1>2, <1>5
  <2>3. QED
    BY <1>2, <1>5, <2>1, <2>2 DEF Word
<1>6. CASE b # 0 /\ a = INT64_MIN /\ b = UINT64_MAX /\ o \in {"div", "rem"}
  <2>1. func_div("div", a, b) = INT64_MIN /\ func_div("rem", a, b) = 0
    BY <1>6, Zenon DEF func_div
  <2>2. QED
    BY <1>1, <1>6, <2>1
<1>7. CASE b # 0 /\ ~(a = INT64_MIN /\ b = UINT64_MAX) /\ o \in {"div", "rem"}
  <2>1. /\ func_div("div", a, b) = Wrap(Truncated(Signed(a), Signed(b)))
        /\ func_div("rem", a, b) = Wrap(Rest(Signed(a), Signed(b)))
    BY <1>7, Zenon DEF func_div
  <2>2. Signed(a) \in Int /\ Signed(b) \in Int /\ Signed(b) # 0
    <3>1. \A u, v \in Word : Signed(u) = Signed(v) => u = v
      BY SignedWrap
    <3>2. QED
      BY <1>7, <3>1, Limits, SignedWrap
  <2>3. Truncated(Signed(a), Signed(b)) \in Int /\ Rest(Signed(a), Signed(b)) \in Int
    BY <2>2, TruncatedDivision
  <2>4. QED
    BY <1>7, <2>1, <2>3, SignedWrap
<1>8. QED
  BY <1>3, <1>4, <1>5, <1>6, <1>7 DEF DivOps

\* Whatever a handler computes is a word, if it returns.
LEMMA ComputedWord ==
  ASSUME rs1 \in Word, rs2 \in Word, NEW o, NEW v, v # Crash, Computed(o, v)
  PROVE  v \in Word
<1>1. CASE o \in Immediate /\ v = func_imm(o, rs1, Signed(rs2))
  <2>1. \/ \E p \in Basic : v = func_basic(p, rs1, rs2)
        \/ \E p \in WordOps : v = func_word(p, rs1, rs2)
    BY <1>1, RegisterForms DEF Immediate, Basic, WordOps
  <2>2. ASSUME NEW p \in WordOps, v = func_word(p, rs1, rs2) PROVE v \in Word
    BY <2>2, WordOpsLow, LowKeeps
  <2>3. QED
    BY <2>1, <2>2, BasicWords
<1>2. CASE o \in Basic /\ v = func_basic(o, rs1, rs2)
  BY <1>2, BasicWords
<1>3. CASE o \in WordOps /\ v = func_word(o, rs1, rs2)
  BY <1>3, WordOpsLow, LowKeeps
<1>4. CASE o \in MulOps /\ v = func_mul(o, rs1, rs2)
  BY <1>4, MulWords
<1>5. CASE o \in DivOps /\ v = func_div(o, rs1, rs2)
  BY <1>5, DivWords
<1>6. CASE o \in DivWordOps /\ v = func_divw(o, rs1, rs2)
  BY <1>6, DivWordOpsLow, LowKeeps
<1>7. QED
  BY <1>1, <1>2, <1>3, <1>4, <1>5, <1>6 DEF Computed

\* Every handler leaves a uint64_t in rd: the shifts cut off what leaves the
\* register, the comparisons and the quotients fit, and &, | and ^ of words
\* are words (interp.c, the handlers from func_addi to func_remuw).
LEMMA ResultsAreWords == Spec => []TypeOK
<1>1. Init => TypeOK
  BY Limits DEF Init, TypeOK
<1>2. TypeOK /\ [Next]_vars => TypeOK'
  <2>1. SUFFICES ASSUME TypeOK, [Next]_vars PROVE TypeOK'
    OBVIOUS
  <2>2. rs1 \in Word /\ rs2 \in Word
    BY <2>1, AluAssumption DEF TypeOK
  <2>3. ASSUME NEW o, NEW v, Executed(o, v), Computed(o, v)
        PROVE  TypeOK'
    <3>1. v # Crash /\ rd' = v /\ op' = o /\ ctl' = "done" /\ rs1' = rs1 /\ rs2' = rs2
      BY <2>3 DEF Executed
    <3>2. v \in Word
      BY <2>2, <2>3, <3>1, ComputedWord
    <3>3. o \in Immediate \cup Basic \cup WordOps \cup MulOps \cup DivOps \cup DivWordOps
      BY <2>3, Zenon DEF Computed
    <3>4. QED
      BY <2>1, <3>1, <3>2, <3>3 DEF TypeOK
  <2>4. CASE ExecImm
    BY <2>3, <2>4 DEF ExecImm, Computed
  <2>5. CASE ExecBasic
    BY <2>3, <2>5 DEF ExecBasic, Computed
  <2>6. CASE ExecWord
    BY <2>3, <2>6 DEF ExecWord, Computed
  <2>7. CASE ExecMul
    BY <2>3, <2>7 DEF ExecMul, Computed
  <2>8. CASE ExecDiv
    BY <2>3, <2>8 DEF ExecDiv, Computed
  <2>9. CASE ExecDivWord
    BY <2>3, <2>9 DEF ExecDivWord, Computed
  <2>10. CASE DivCrashes
    BY <2>1, <2>10 DEF DivCrashes, TypeOK
  <2>11. CASE UNCHANGED vars
    BY <2>1, <2>11 DEF vars, TypeOK
  <2>12. QED
    BY <2>1, <2>4, <2>5, <2>6, <2>7, <2>8, <2>9, <2>10, <2>11 DEF Next, Returned
<1>3. QED
  BY <1>1, <1>2, PTL DEF Spec
=============================================================================
