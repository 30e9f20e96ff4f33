---------------------------- MODULE FloatProofs ----------------------------
(***************************************************************************)
(* What the floating-point handlers compute, for every width of the two    *)
(* formats and all operands; and that the halves of fp_reg_t which they    *)
(* leave stale are never seen: FpRegs implements BoxedRegs, for any        *)
(* registers, values and operations.                                       *)
(***************************************************************************)
EXTENDS Float, FpRegs, TLAPS, WellFoundedInduction

-----------------------------------------------------------------------------
(* Arithmetic.                                                             *)

\* Quotient and remainder are determined by their equation.
LEMMA DivMod ==
  ASSUME NEW m \in Nat, m > 0, NEW q \in Int, NEW r \in Int, 0 <= r, r < m
  PROVE  (q * m + r) % m = r /\ (q * m + r) \div m = q
<1>1. \A k \in Nat \ {0} : \A i, j \in Int : 0 <= j /\ j < k => (i * k + j) % k = j
  OBVIOUS
<1>2. \A k \in Nat \ {0} : \A i, j \in Int : 0 <= j /\ j < k => (i * k + j) \div k = i
  OBVIOUS
<1>3. QED
  BY <1>1, <1>2

\* Every integer has a quotient and a remainder.
LEMMA DivModOf ==
  ASSUME NEW m \in Nat, m > 0, NEW i \in Int
  PROVE  \E q, r \in Int :
           i = q * m + r /\ 0 <= r /\ r < m /\ i % m = r /\ i \div m = q
<1>1. i = m * (i \div m) + (i % m) /\ 0 <= i % m /\ i % m < m /\ i \div m \in Int
      /\ i % m \in Int
  OBVIOUS
<1>2. PICK q \in Int, r \in Int : q = i \div m /\ r = i % m
  BY <1>1
<1>3. i = q * m + r
  <2>1. i = m * q + r
    BY <1>1, <1>2
  <2>2. QED
    BY <2>1
<1>4. QED
  BY <1>1, <1>2, <1>3

\* Products with a number that is not negative.
LEMMA Scaled ==
  /\ \A i, j \in Nat : i * j \in Nat
  /\ \A i, j \in Int, k \in Nat : i <= j => i * k <= j * k
  /\ \A i, j \in Int, k \in Nat : i < j => i * k + k <= j * k
<1>1. \A i, j \in Nat : i * j \in Nat
  OBVIOUS
<1>2. \A i, j \in Int, k \in Nat : i <= j => i * k <= j * k
  <2>2. ASSUME NEW i \in Int, NEW j \in Int, NEW k \in Nat, i <= j PROVE i * k <= j * k
    <3>1. PICK d \in Nat : j = i + d
      BY <2>2
    <3>2. j * k = i * k + d * k /\ d * k \in Nat /\ i * k \in Int
      BY <1>1, <3>1
    <3>3. QED
      BY <3>2
  <2>3. QED
    BY <2>2
<1>3. ASSUME NEW i \in Int, NEW j \in Int, NEW k \in Nat, i < j PROVE i * k + k <= j * k
  <2>1. (i + 1) * k <= j * k
    <3>1. i + 1 \in Int /\ i + 1 <= j
      BY <1>3
    <3>2. QED
      BY <1>2, <3>1
  <2>2. (i + 1) * k = i * k + k
    OBVIOUS
  <2>3. QED
    BY <2>1, <2>2
<1>4. QED
  BY <1>1, <1>2, <1>3

\* The quotient of a number below a multiple of the divisor.
LEMMA QuotientBelow ==
  ASSUME NEW m \in Nat, m > 0, NEW n \in Nat, NEW i \in Int, 0 <= i, i < n * m
  PROVE  i \div m \in 0 .. (n - 1)
<1>1. PICK q, r \in Int : i = q * m + r /\ 0 <= r /\ r < m /\ i \div m = q
  BY DivModOf
<1>2. n <= q => n * m <= q * m
  <2>1. n \in Int /\ q \in Int /\ m \in Nat
    OBVIOUS
  <2>2. QED
    BY ONLY <2>1, Scaled
<1>3. q < 0 => q * m + m <= 0 * m
  <2>1. 0 \in Int /\ q \in Int /\ m \in Nat
    OBVIOUS
  <2>2. QED
    BY ONLY <2>1, Scaled
<1>4. PICK j, k \in Int : j = q * m /\ k = n * m
  OBVIOUS
<1>5. i = j + r /\ 0 <= r /\ r < m /\ 0 <= i /\ i < k /\ (n <= q => k <= j) /\ (q < 0 => j + m <= 0)
  BY <1>1, <1>2, <1>3, <1>4
<1>6. ~(n <= q) /\ ~(q < 0)
  BY ONLY <1>5, i \in Int, j \in Int, k \in Int, r \in Int, m \in Nat, n \in Nat, q \in Int
<1>7. QED
  BY <1>1, <1>6

-----------------------------------------------------------------------------
(* Formats.  A pattern is sign * Top + exp * Unit + frac.                  *)

Top(f) == 2^(Width(f) - 1)
Unit(f) == 2^FracBits[f]
Pattern(f) == 0 .. (2 * Top(f) - 1)

\* The sizes of the fields.
LEMMA Fields ==
  ASSUME NEW f \in Format
  PROVE  /\ Top(f) \in Nat /\ Top(f) > 0 /\ Unit(f) \in Nat /\ Unit(f) > 0
         /\ EMax(f) \in Nat /\ EMax(f) > 0 /\ Top(f) = (EMax(f) + 1) * Unit(f)
         /\ QuietBit(f) \in Nat /\ QuietBit(f) > 0 /\ Unit(f) = 2 * QuietBit(f)
         /\ 2 * Top(f) = 2^Width(f)
<1> DEFINE e == ExpBits[f]
           n == FracBits[f]
<1>1. /\ e \in Nat /\ e > 0 /\ n \in Nat /\ n > 1 /\ WLen \in Nat /\ XLen = 2 * WLen
      /\ 1 + e + n = Width(f) /\ FracBits["d"] \in Nat
  BY IeeeAssumption DEF Format
<1>2. /\ Width(f) <= XLen /\ XLen \in Nat /\ Width(f) \in Nat
  BY <1>1 DEF Width, Format
<1> HIDE DEF e, n
<1>3. MaxPlace \in Nat /\ MaxPlace >= XLen
  BY <1>1, <1>2 DEF MaxPlace
<1>4. 2^(e + n) = 2^e * 2^n /\ 2^e \in Nat /\ 2^e > e /\ 2^n \in Nat /\ 2^n > n
  <2>1. e \in 0 .. MaxPlace /\ n \in 0 .. (MaxPlace - e) /\ n \in 0 .. MaxPlace
    BY <1>1, <1>2, <1>3
  <2>2. QED
    BY <2>1, PowerAssumption
<1>5. 2^n = 2 * 2^(n - 1) /\ 2^(n - 1) \in Nat /\ 2^(n - 1) > 0
  <2>1. n - 1 \in 0 .. MaxPlace /\ 1 \in 0 .. MaxPlace /\ n - 1 \in 0 .. (MaxPlace - 1)
    BY <1>1, <1>2, <1>3
  <2>2. 2^(1 + (n - 1)) = 2^1 * 2^(n - 1) /\ 2^(n - 1) \in Nat /\ 2^(n - 1) > n - 1
    BY <2>1, PowerAssumption
  <2>3. 1 + (n - 1) = n /\ 2^1 = 2
    BY <1>1
  <2>4. QED
    BY <1>1, <2>2, <2>3
<1>6. 2^Width(f) = 2 * 2^(Width(f) - 1)
  <2>1. 1 \in 0 .. MaxPlace /\ Width(f) - 1 \in 0 .. (MaxPlace - 1)
    BY <1>1, <1>2, <1>3
  <2>2. 2^(1 + (Width(f) - 1)) = 2^1 * 2^(Width(f) - 1)
    BY <2>1, PowerAssumption
  <2>3. 1 + (Width(f) - 1) = Width(f) /\ 2^1 = 2
    BY <1>2
  <2>4. QED
    BY <2>2, <2>3
<1>7. Width(f) - 1 = e + n
  BY <1>1, <1>2
<1>8. /\ Unit(f) = 2^n /\ Top(f) = 2^e * 2^n /\ EMax(f) = 2^e - 1 /\ QuietBit(f) = 2^(n - 1)
  BY <1>4, <1>7 DEF Unit, Top, EMax, QuietBit, e, n
<1>9. Top(f) \in Nat /\ Top(f) > 0
  <2>1. \A i, j \in Nat : i > 0 /\ j > 0 => i * j \in Nat /\ i * j > 0
    OBVIOUS
  <2>2. QED
    BY <1>1, <1>4, <1>8, <2>1
<1>10. QED
  BY <1>1, <1>4, <1>5, <1>6, <1>8, <1>9 DEF Top

\* A pattern is its sign, exponent and fraction.
LEMMA Parts ==
  ASSUME NEW f \in Format, NEW w \in Pattern(f)
  PROVE  /\ sign(f, w) \in {0, 1} /\ Magnitude(f, w) \in 0 .. (Top(f) - 1)
         /\ w = sign(f, w) * Top(f) + Magnitude(f, w)
         /\ exp(f, w) \in 0 .. EMax(f) /\ frac(f, w) \in 0 .. (Unit(f) - 1)
         /\ Magnitude(f, w) = exp(f, w) * Unit(f) + frac(f, w)
<1>1. PICK T \in Nat, U \in Nat, E \in Nat :
        T = Top(f) /\ U = Unit(f) /\ E = EMax(f) /\ T > 0 /\ U > 0 /\ T = (E + 1) * U
  BY Fields
<1>2. PICK s, m \in Int : w = s * T + m /\ 0 <= m /\ m < T /\ w % T = m /\ w \div T = s
  <2>1. w \in Int
    BY <1>1 DEF Pattern
  <2>2. QED
    BY <1>1, <2>1, DivModOf
<1>3. s \in {0, 1}
  <2>1. w \in Int /\ 0 <= w /\ w < 2 * T
    BY <1>1 DEF Pattern
  <2>2. w \div T \in 0 .. (2 - 1)
    BY <1>1, <2>1, QuotientBelow
  <2>3. QED
    BY <1>2, <2>2
<1>4. PICK e, r \in Int : m = e * U + r /\ 0 <= r /\ r < U /\ m % U = r /\ m \div U = e
  BY <1>1, <1>2, DivModOf
<1>5. e \in 0 .. E
  <2>1. PICK n \in Nat : n = E + 1 /\ T = n * U
    BY <1>1
  <2>2. m < n * U
    BY <1>2, <2>1
  <2>3. m \div U \in 0 .. (n - 1)
    BY <1>1, <1>2, <2>2, QuotientBelow
  <2>4. QED
    BY <1>1, <1>4, <2>1, <2>3
<1>6. w % U = r
  <2>1. s * T = (s * (E + 1)) * U
    BY <1>1, <1>2
  <2>2. w = (s * (E + 1)) * U + (e * U + r)
    BY <1>2, <1>4, <2>1
  <2>3. (s * (E + 1)) * U + (e * U + r) = (s * (E + 1) + e) * U + r
    BY <1>1, <1>2, <1>4
  <2>4. PICK q \in Int : q = s * (E + 1) + e
    BY <1>1, <1>2, <1>4
  <2>5. w = q * U + r
    BY <2>2, <2>3, <2>4
  <2>6. QED
    BY <1>1, <1>4, <2>5, DivMod, ZenonT(60)
<1>7. sign(f, w) = s /\ Magnitude(f, w) = m /\ exp(f, w) = e /\ frac(f, w) = r
  <2>1. /\ sign(f, w) = w \div Top(f) /\ Magnitude(f, w) = w % Top(f)
        /\ exp(f, w) = (w % Top(f)) \div Unit(f) /\ frac(f, w) = w % Unit(f)
    BY Zenon DEF sign, Magnitude, exp, frac, Top, Unit
  <2>2. QED
    BY <1>1, <1>2, <1>4, <1>6, <2>1
<1>8. m \in 0 .. (T - 1) /\ r \in 0 .. (U - 1) /\ w = s * T + m /\ m = e * U + r
  <2>1. 0 <= m /\ m < T /\ 0 <= r /\ r < U
    BY <1>2, <1>4, Zenon
  <2>2. m \in 0 .. (T - 1) /\ r \in 0 .. (U - 1)
    BY <2>1
  <2>3. QED
    BY <1>2, <1>4, <2>2, Zenon
<1>9. QED
  BY <1>1, <1>3, <1>5, <1>7, <1>8, Zenon

\* A pattern from its parts.
LEMMA FromParts ==
  ASSUME NEW f \in Format, NEW s \in {0, 1}, NEW m \in 0 .. (Top(f) - 1)
  PROVE  /\ m + Signum(f, s) \in Pattern(f) /\ Signum(f, s) + m = m + Signum(f, s)
         /\ sign(f, m + Signum(f, s)) = s /\ Magnitude(f, m + Signum(f, s)) = m
<1>1. PICK T \in Nat : T = Top(f) /\ T > 0
  BY Fields
<1>2. Signum(f, s) = s * T /\ s \in Int /\ m \in Int /\ 0 <= m /\ m < T
  BY <1>1 DEF Signum, Top
<1>3. m + s * T = s * T + m /\ s * T \in Int
  BY <1>1, <1>2
<1>4. (s * T + m) % T = m /\ (s * T + m) \div T = s
  BY <1>1, <1>2, DivMod
<1>5. m + s * T \in 0 .. (2 * T - 1)
  BY <1>1, <1>2
<1>6. QED
  BY <1>1, <1>2, <1>3, <1>4, <1>5 DEF sign, Magnitude, Top, Pattern

\* The order of the magnitudes is that of exponents, then of fractions.
LEMMA MagnitudeOrder ==
  ASSUME NEW f \in Format, NEW w \in Pattern(f)
  PROVE  /\ Inf(f) \in Nat /\ Unit(f) <= Inf(f) /\ Inf(f) + Unit(f) = Top(f)
         /\ Magnitude(f, w) = 0 <=> exp(f, w) = 0 /\ frac(f, w) = 0
         /\ Magnitude(f, w) < Unit(f) <=> exp(f, w) = 0
         /\ Magnitude(f, w) < Inf(f) <=> exp(f, w) # EMax(f)
         /\ exp(f, w) = EMax(f) => Magnitude(f, w) = Inf(f) + frac(f, w)
<1>1. PICK U \in Nat, E \in Nat : U = Unit(f) /\ E = EMax(f) /\ U > 0 /\ E > 0 /\ Top(f) = (E + 1) * U
  BY Fields
<1>2. PICK e \in 0 .. E, r \in 0 .. (U - 1) : e = exp(f, w) /\ r = frac(f, w) /\ Magnitude(f, w) = e * U + r
  BY <1>1, Parts
<1>3. Inf(f) = E * U
  BY <1>1, Zenon DEF Inf, Unit
<1>4. (E + 1) * U = E * U + U
  BY ONLY U \in Nat, E \in Nat
<1>5. /\ 1 <= E => 1 * U <= E * U
      /\ e < E => e * U + U <= E * U
      /\ 0 < e => 0 * U + U <= e * U
      /\ e = 0 => e * U = 0
  <2>1. e \in Int /\ E \in Int /\ 0 \in Int /\ 1 \in Int
    OBVIOUS
  <2>2. QED
    BY ONLY <2>1, U \in Nat, Scaled
<1>6. PICK i, j \in Int : i = E * U /\ j = e * U
  BY ONLY U \in Nat, E \in Nat, e \in 0 .. E
<1>7. /\ Inf(f) = i /\ Top(f) = i + U /\ Magnitude(f, w) = j + r
      /\ U <= i /\ (e < E => j + U <= i) /\ (0 < e => U <= j) /\ (e = 0 => j = 0) /\ (e = E => j = i)
  BY <1>1, <1>2, <1>3, <1>4, <1>5, <1>6
<1>8. e \in Int /\ 0 <= e /\ e <= E /\ r \in Int /\ 0 <= r /\ r < U
  OBVIOUS
<1>9. QED
  BY ONLY <1>1, <1>2, <1>6, <1>7, <1>8

-----------------------------------------------------------------------------
(* The state after a handler.                                              *)

\* fp_regs[rd] with its member f or d assigned.
Put(f, v) == IF f = "s" THEN (Stale - uint32(Stale)) + v ELSE v

\* What the handler named o has left for format f.
Ran(o, f) ==
  /\ o \in MulAddOps => \E v \in muladd(f, o, Operand(f, 1), Operand(f, 2), Operand(f, 3)) : fd = Put(f, v)
  /\ o \in ArithOps => \E v \in arith(f, o, Operand(f, 1), Operand(f, 2)) : fd = Put(f, v)
  /\ o \in DOMAIN SignOps =>
       \E v \in {fsgnj(f, Operand(f, 1), Operand(f, 2), SignOps[o][1], SignOps[o][2])} :
         fd = IF f = "s" THEN Boxed(v) ELSE v
  /\ o \in ToOps => xd = fcvt_to(f, o, Operand(f, 1))
  /\ o \in FromOps => fd = Put(f, FromInt(f, SourceInt(o, xs)))
  /\ o = "fclass" => xd = classify(f, Operand(f, 1))

FloatInv ==
  /\ rs \in Word \X Word \X Word /\ xs \in Word
  /\ op = <<op[1], op[2]>> /\ op[2] \in Format
  /\ Ready => fd = Stale
  /\ Ran(op[1], op[2])

\* No name belongs to handlers of two kinds.
LEMMA Names ==
  /\ DOMAIN SignOps = {"fsgnj", "fsgnjn", "fsgnjx"}
  /\ \A o \in MulAddOps : o \notin ArithOps \cup DOMAIN SignOps \cup ToOps \cup FromOps
                          /\ o \notin {"fclass", "none"}
  /\ \A o \in ArithOps : o \notin DOMAIN SignOps \cup ToOps \cup FromOps /\ o \notin {"fclass", "none"}
  /\ \A o \in DOMAIN SignOps : o \notin ToOps \cup FromOps /\ o \notin {"fclass", "none"}
  /\ \A o \in ToOps : o \notin FromOps /\ o \notin {"fclass", "none"}
  /\ \A o \in FromOps : o \notin {"fclass", "none"}
  /\ \A o \in {"fmv_x", "fmv", "fclass", "fcvt", "none"} \cup CompareOps :
       o \notin MulAddOps \cup ArithOps \cup DOMAIN SignOps \cup ToOps \cup FromOps
  /\ "fclass" \notin {"fmv_x", "fmv", "fcvt", "none"} \cup CompareOps
BY DEF SignOps, MulAddOps, ArithOps, ToOps, FromOps, CompareOps

LEMMA FloatInvariant == FloatSpec => []FloatInv
<1>1. FloatInit => FloatInv
  <2>1. SUFFICES ASSUME FloatInit PROVE FloatInv
    OBVIOUS
  <2>2. rs \in Word \X Word \X Word /\ xs \in Word
    <3>1. 0 \in Word
      BY WordAssumption DEF Word
    <3>2. QED
      BY <2>1, <3>1, FloatAssumption DEF FloatInit
  <2>3. op = <<"none", "s">> /\ fd = Stale /\ op[1] = "none" /\ op[2] = "s"
    BY <2>1 DEF FloatInit
  <2>4. Ran("none", "s")
    BY Names DEF Ran
  <2>5. QED
    BY <2>2, <2>3, <2>4 DEF FloatInv, Format
<1>2. FloatInv /\ [FloatNext]_floatVars => FloatInv'
  <2>1. SUFFICES ASSUME FloatInv, [FloatNext]_floatVars PROVE FloatInv'
    OBVIOUS
  <2>2. CASE UNCHANGED floatVars
    BY <2>1, <2>2 DEF FloatInv, floatVars, Ready, Ran, Operand, Member
  <2>3. ASSUME NEW o, o # "none", NEW f \in Format, NEW u, NEW v, Writes(o, f, u, v), Ran(o, f)'
        PROVE  FloatInv'
    <3>1. op' = <<o, f>> /\ rs' = rs /\ xs' = xs /\ op'[1] = o /\ op'[2] = f
      BY <2>3 DEF Writes
    <3>2. ~Ready'
      BY <2>3, <3>1 DEF Ready
    <3>3. QED
      BY <2>1, <2>3, <3>1, <3>2 DEF FloatInv
  <2>4. ASSUME NEW o, NEW f \in Format, NEW u, NEW v, Writes(o, f, u, v)
        PROVE  /\ fd' = u /\ xd' = v /\ xs' = xs
               /\ \A g \in Format, i \in 1 .. 3 : Operand(g, i)' = Operand(g, i)
    BY <2>4 DEF Writes, Operand, Member
  <2>5. Ready => \A f \in Format : \A v : Assigned(f, v) = Put(f, v)
    BY <2>1 DEF FloatInv, Assigned, Put
  <2>6. ASSUME NEW f \in Format, MulAdd(f) PROVE FloatInv'
    <3>1. PICK o \in MulAddOps : \E v \in muladd(f, o, Operand(f, 1), Operand(f, 2), Operand(f, 3)) :
            Writes(o, f, Assigned(f, v), xd)
      BY <2>6 DEF MulAdd
    <3>2. PICK v \in muladd(f, o, Operand(f, 1), Operand(f, 2), Operand(f, 3)) :
            Writes(o, f, Assigned(f, v), xd)
      BY <3>1
    <3>3. fd' = Put(f, v)
      BY <2>4, <2>5, <2>6, <3>2 DEF MulAdd
    <3>4. \A i \in 1 .. 3 : Operand(f, i)' = Operand(f, i)
      BY <2>4, <3>2
    <3>5. Ran(o, f)'
      BY <3>3, <3>4, Names DEF Ran
    <3>6. QED
      BY <2>3, <3>2, <3>5, Names
  <2>7. ASSUME NEW f \in Format, Arith(f) PROVE FloatInv'
    <3>1. PICK o \in ArithOps : \E v \in arith(f, o, Operand(f, 1), Operand(f, 2)) :
            Writes(o, f, Assigned(f, v), xd)
      BY <2>7 DEF Arith
    <3>2. PICK v \in arith(f, o, Operand(f, 1), Operand(f, 2)) : Writes(o, f, Assigned(f, v), xd)
      BY <3>1
    <3>3. fd' = Put(f, v)
      BY <2>4, <2>5, <2>7, <3>2 DEF Arith
    <3>4. Operand(f, 1)' = Operand(f, 1) /\ Operand(f, 2)' = Operand(f, 2)
      BY <2>4, <3>2
    <3>5. Ran(o, f)'
      BY <3>3, <3>4, Names DEF Ran
    <3>6. QED
      BY <2>3, <3>2, <3>5, Names
  <2>8. ASSUME NEW f \in Format, SignInject(f) PROVE FloatInv'
    <3> DEFINE Injected(o) == fsgnj(f, Operand(f, 1), Operand(f, 2), SignOps[o][1], SignOps[o][2])
    <3>1. PICK o \in DOMAIN SignOps :
            Writes(o, f, IF f = "s" THEN Boxed(Injected(o)) ELSE Injected(o), xd)
      BY <2>8 DEF SignInject
    <3>2. Operand(f, 1)' = Operand(f, 1) /\ Operand(f, 2)' = Operand(f, 2)
      BY <2>4, <3>1
    <3>3. fd' = IF f = "s" THEN Boxed(Injected(o)) ELSE Injected(o)
      BY <2>4, <3>1
    <3>4. Ran(o, f)'
      BY <3>2, <3>3, Names DEF Ran
    <3>5. QED
      BY <2>3, <3>1, <3>4, Names
  <2>9. ASSUME NEW f \in Format, FcvtTo(f) PROVE FloatInv'
    <3>1. PICK o \in ToOps : Writes(o, f, fd, fcvt_to(f, o, Operand(f, 1)))
      BY <2>9 DEF FcvtTo
    <3>2. Operand(f, 1)' = Operand(f, 1) /\ xd' = fcvt_to(f, o, Operand(f, 1))
      BY <2>4, <3>1
    <3>3. Ran(o, f)'
      BY <3>2, Names DEF Ran
    <3>4. QED
      BY <2>3, <3>1, <3>3, Names
  <2>10. ASSUME NEW f \in Format, FcvtFrom(f) PROVE FloatInv'
    <3>1. PICK o \in FromOps : Writes(o, f, Assigned(f, FromInt(f, SourceInt(o, xs))), xd)
      BY <2>10 DEF FcvtFrom
    <3>2. xs' = xs /\ fd' = Put(f, FromInt(f, SourceInt(o, xs)))
      BY <2>4, <2>5, <2>10, <3>1 DEF FcvtFrom
    <3>3. Ran(o, f)'
      BY <3>2, Names DEF Ran
    <3>4. QED
      BY <2>3, <3>1, <3>3, Names
  <2>11. ASSUME NEW f \in Format, Fclass(f) PROVE FloatInv'
    <3>1. Writes("fclass", f, fd, classify(f, Operand(f, 1)))
      BY <2>11 DEF Fclass
    <3>2. Operand(f, 1)' = Operand(f, 1) /\ xd' = classify(f, Operand(f, 1))
      BY <2>4, <3>1
    <3>3. Ran("fclass", f)'
      BY <3>2, Names DEF Ran
    <3>4. QED
      BY <2>3, <3>1, <3>3
  <2>12. ASSUME NEW o \in {"fmv_x", "fmv", "fcvt"} \cup CompareOps, NEW f \in Format, NEW u, NEW v,
                Writes(o, f, u, v)
         PROVE  FloatInv'
    <3>1. o # "none" /\ o # "fclass" /\ Ran(o, f)'
      BY Names DEF Ran, CompareOps
    <3>2. QED
      BY <2>3, <2>12, <3>1
  <2>13. ASSUME NEW f \in Format, Fmv(f) \/ Compare(f) PROVE FloatInv'
    BY <2>12, <2>13 DEF Fmv, Compare
  <2>14. CASE FcvtFormat
    <3>1. "s" \in Format /\ "d" \in Format
      BY DEF Format
    <3>2. QED
      BY <2>12, <2>14, <3>1 DEF FcvtFormat
  <2>15. CASE Returned
    BY <2>2, <2>15 DEF Returned
  <2>16. QED
    BY <2>1, <2>2, <2>6, <2>7, <2>8, <2>9, <2>10, <2>11, <2>13, <2>14, <2>15, Zenon DEF FloatNext
<1>3. QED
  BY <1>1, <1>2, PTL DEF FloatSpec

\* A member of a register is a pattern of its format, and a result is read back.
LEMMA Members ==
  ASSUME NEW f \in Format
  PROVE  /\ \A w \in Word : Member(f, w) \in Pattern(f)
         /\ \A v \in Pattern(f) : Member(f, Put(f, v)) = v
         /\ f = "s" => \A v \in Pattern(f) : Member(f, Boxed(v)) = v
<1>1. PICK P \in Nat : P = 2^WLen /\ 2 * Top("s") = P /\ P > 0
  <2>1. "s" \in Format
    BY DEF Format
  <2>2. QED
    BY <2>1, Fields DEF Width
<1>2. CASE f = "s"
  <2>1. Pattern(f) = 0 .. (P - 1)
    BY <1>1, <1>2 DEF Pattern
  <2>2. ASSUME NEW w \in Word PROVE Member(f, w) \in Pattern(f)
    <3>1. w \in Int
      BY WordAssumption DEF Word
    <3>2. w % P \in 0 .. (P - 1)
      BY <1>1, <3>1
    <3>3. QED
      BY <1>1, <1>2, <2>1, <3>2 DEF Member, uint32
  <2>3. PICK q, r \in Int : Stale = q * P + r /\ Stale % P = r
    <3>1. Stale \in Int
      BY FloatAssumption, WordAssumption DEF Word
    <3>2. QED
      BY <1>1, <3>1, DivModOf
  <2>4. ASSUME NEW v \in 0 .. (P - 1) PROVE Member(f, Put(f, v)) = v /\ Member(f, Boxed(v)) = v
    <3>1. Put(f, v) = q * P + v
      <4>1. Put(f, v) = (Stale - (Stale % P)) + v
        BY <1>1, <1>2 DEF Put, uint32
      <4>2. PICK i \in Int : i = q * P
        BY <1>1, <2>3
      <4>3. QED
        BY <2>3, <4>1, <4>2
    <3>2. Boxed(v) = (P - 1) * P + v /\ P - 1 \in Int
      BY <1>1 DEF Boxed
    <3>3. v \in Int /\ 0 <= v /\ v < P
      OBVIOUS
    <3>4. (q * P + v) % P = v /\ ((P - 1) * P + v) % P = v
      BY <1>1, <2>3, <3>2, <3>3, DivMod
    <3>5. QED
      BY <1>1, <1>2, <3>1, <3>2, <3>4 DEF Member, uint32
  <2>5. QED
    BY <2>1, <2>2, <2>4
<1>3. CASE f = "d"
  <2>1. f # "s" /\ Word = Pattern(f)
    <3>1. 2 * Top(f) = 2^XLen /\ Top(f) \in Nat
      BY <1>3, Fields DEF Width
    <3>2. QED
      BY <1>3, <3>1, IeeeAssumption DEF Word, Pattern
  <2>2. QED
    BY <2>1 DEF Member, Put
<1>4. QED
  BY <1>2, <1>3 DEF Format

\* The operands of a handler are patterns.
LEMMA Operands ==
  ASSUME FloatInv, NEW f \in Format, NEW i \in 1 .. 3
  PROVE  Operand(f, i) \in Pattern(f)
<1>1. rs[i] \in Word
  BY DEF FloatInv
<1>2. QED
  BY <1>1, Members DEF Operand

\* A handler that is done has left its result.
LEMMA DoneRan ==
  ASSUME FloatInv, NEW o, NEW f, Done(o, f)
  PROVE  Ran(o, f) /\ op[1] = o /\ op[2] = f
BY DEF FloatInv, Done

-----------------------------------------------------------------------------
(* Sign injection.                                                         *)

\* The pattern that fsgnj32 and fsgnj64 return.
LEMMA Injected ==
  ASSUME NEW f \in Format, NEW a \in Pattern(f), NEW b \in Pattern(f), NEW o \in DOMAIN SignOps
  PROVE  LET r == fsgnj(f, a, b, SignOps[o][1], SignOps[o][2])
         IN  /\ r \in Pattern(f) /\ Magnitude(f, r) = Magnitude(f, a)
             /\ o = "fsgnj" => sign(f, r) = sign(f, b)
             /\ o = "fsgnjn" => sign(f, r) = 1 - sign(f, b)
             /\ o = "fsgnjx" => sign(f, r) = IF sign(f, a) = sign(f, b) THEN 0 ELSE 1
<1> DEFINE v == IF SignOps[o][2] THEN sign(f, a) ELSE IF SignOps[o][1] THEN 1 ELSE 0
           t == (v + sign(f, b)) % 2
<1>1. sign(f, a) \in {0, 1} /\ sign(f, b) \in {0, 1} /\ Magnitude(f, a) \in 0 .. (Top(f) - 1)
  BY Parts
<1>2. /\ o = "fsgnj" => v = 0
      /\ o = "fsgnjn" => v = 1
      /\ o = "fsgnjx" => v = sign(f, a)
  <2>1. /\ SignOps["fsgnj"] = <<FALSE, FALSE>> /\ SignOps["fsgnjn"] = <<TRUE, FALSE>>
        /\ SignOps["fsgnjx"] = <<FALSE, TRUE>>
    BY DEF SignOps
  <2>2. /\ SignOps["fsgnj"][1] = FALSE /\ SignOps["fsgnj"][2] = FALSE
        /\ SignOps["fsgnjn"][1] = TRUE /\ SignOps["fsgnjn"][2] = FALSE
        /\ SignOps["fsgnjx"][2] = TRUE
    BY <2>1
  <2>3. QED
    BY <2>2, Zenon
<1>3. o \in {"fsgnj", "fsgnjn", "fsgnjx"}
  BY Names
<1> HIDE DEF v
<1>4. /\ t \in {0, 1}
      /\ o = "fsgnj" => t = sign(f, b)
      /\ o = "fsgnjn" => t = 1 - sign(f, b)
      /\ o = "fsgnjx" => t = IF sign(f, a) = sign(f, b) THEN 0 ELSE 1
  BY <1>1, <1>2, <1>3
<1>5. fsgnj(f, a, b, SignOps[o][1], SignOps[o][2]) = Magnitude(f, a) + Signum(f, t)
  BY Zenon DEF fsgnj, v
<1>6. PICK s, r : s = t /\ r = Magnitude(f, a) + Signum(f, t)
  OBVIOUS
<1>7. r \in Pattern(f) /\ sign(f, r) = s /\ Magnitude(f, r) = Magnitude(f, a)
  BY <1>1, <1>4, <1>6, FromParts, Zenon
<1> HIDE DEF t
<1>8. QED
  BY <1>4, <1>5, <1>6, <1>7, Zenon

\* fsgnj, fsgnjn and fsgnjx move, negate and multiply signs, for every pattern of
\* every width, and box single-precision results.
THEOREM SignsInjected == FloatSpec => []SignInjection
<1>1. FloatInv => SignInjection
  <2>1. SUFFICES ASSUME FloatInv PROVE SignInjection
    OBVIOUS
  <2>2. ASSUME NEW f \in Format, NEW o \in DOMAIN SignOps, Done(o, f)
        PROVE  /\ Result(f) = fsgnj(f, Operand(f, 1), Operand(f, 2), SignOps[o][1], SignOps[o][2])
               /\ f = "s" => fd = Boxed(Result(f))
    <3>1. Operand(f, 1) \in Pattern(f) /\ Operand(f, 2) \in Pattern(f)
      BY <2>1, Operands
    <3>2. PICK v : /\ v = fsgnj(f, Operand(f, 1), Operand(f, 2), SignOps[o][1], SignOps[o][2])
                   /\ fd = IF f = "s" THEN Boxed(v) ELSE v
      BY <2>1, <2>2, DoneRan DEF Ran
    <3>3. v \in Pattern(f)
      BY <3>1, <3>2, Injected
    <3>4. CASE f = "s"
      BY <3>2, <3>3, <3>4, Members DEF Result
    <3>5. CASE f # "s"
      BY <3>2, <3>5 DEF Result, Member
    <3>6. QED
      BY <3>4, <3>5
  <2>3. ASSUME NEW f \in Format, NEW o \in DOMAIN SignOps, Done(o, f)
        PROVE  /\ Magnitude(f, Result(f)) = Magnitude(f, Operand(f, 1))
               /\ o = "fsgnj" => sign(f, Result(f)) = sign(f, Operand(f, 2))
               /\ o = "fsgnjn" => sign(f, Result(f)) = 1 - sign(f, Operand(f, 2))
               /\ o = "fsgnjx" => sign(f, Result(f)) =
                                    IF sign(f, Operand(f, 1)) = sign(f, Operand(f, 2)) THEN 0 ELSE 1
    <3>1. Operand(f, 1) \in Pattern(f) /\ Operand(f, 2) \in Pattern(f)
      BY <2>1, Operands
    <3>2. QED
      BY <2>2, <2>3, <3>1, Injected, SMTT(40)
  <2>4. ASSUME NEW f \in Format, op[1] \in DOMAIN SignOps, f = "s", op[2] = f
        PROVE  fd = Boxed(Result(f))
    <3>1. Done(op[1], f)
      BY <2>1, <2>4 DEF Done, FloatInv
    <3>2. QED
      BY <2>2, <2>4, <3>1
  <2>5. QED
    BY <2>3, <2>4, Names DEF SignInjection
<1>2. QED
  BY <1>1, FloatInvariant, PTL

-----------------------------------------------------------------------------
(* Classification.                                                         *)

\* The one bit of a class, with the classes in the order of f32_classify.
LEMMA OneBit ==
  /\ 2^0 = 1 /\ 2^1 = 2 /\ 2^2 = 4 /\ 2^3 = 8 /\ 2^4 = 16 /\ 2^5 = 32
  /\ 2^6 = 64 /\ 2^7 = 128 /\ 2^8 = 256 /\ 2^9 = 512
OBVIOUS

\* The sums of f32_classify and f64_classify have one term that is not zero.
LEMMA Classified ==
  ASSUME NEW f \in Format, NEW w \in Pattern(f)
  PROVE  /\ exp(f, w) = EMax(f) /\ frac(f, w) = 0 => classify(f, w) = IF sign(f, w) = 1 THEN 1 ELSE 128
         /\ exp(f, w) = EMax(f) /\ frac(f, w) # 0 =>
              classify(f, w) = IF frac(f, w) < QuietBit(f) THEN 256 ELSE 512
         /\ exp(f, w) = 0 /\ frac(f, w) = 0 => classify(f, w) = IF sign(f, w) = 1 THEN 8 ELSE 16
         /\ exp(f, w) = 0 /\ frac(f, w) # 0 => classify(f, w) = IF sign(f, w) = 1 THEN 4 ELSE 32
         /\ exp(f, w) # EMax(f) /\ exp(f, w) # 0 =>
              classify(f, w) = IF sign(f, w) = 1 THEN 2 ELSE 64
<1>1. EMax(f) # 0
  BY Fields
<1>2. PICK e, E, r, Q, t : e = exp(f, w) /\ E = EMax(f) /\ r = frac(f, w) /\ Q = QuietBit(f) /\ t = sign(f, w)
  OBVIOUS
<1>3. classify(f, w) =
        (IF t = 1 /\ e = E /\ r = 0 THEN 1 ELSE 0) + (IF t = 1 /\ ~(e = E) /\ ~(e = 0) THEN 2 ELSE 0)
        + (IF t = 1 /\ e = 0 /\ ~(r = 0) THEN 4 ELSE 0) + (IF t = 1 /\ e = 0 /\ r = 0 THEN 8 ELSE 0)
        + (IF ~(t = 1) /\ e = E /\ r = 0 THEN 128 ELSE 0)
        + (IF ~(t = 1) /\ ~(e = E) /\ ~(e = 0) THEN 64 ELSE 0)
        + (IF ~(t = 1) /\ e = 0 /\ ~(r = 0) THEN 32 ELSE 0)
        + (IF ~(t = 1) /\ e = 0 /\ r = 0 THEN 16 ELSE 0)
        + (IF (e = E /\ r # 0) /\ ((e = E /\ r # 0) /\ r < Q) THEN 256 ELSE 0)
        + (IF (e = E /\ r # 0) /\ ~((e = E /\ r # 0) /\ r < Q) THEN 512 ELSE 0)
  BY <1>2, OneBit DEF classify, isNaN, isSigNaN, Bit
<1>4. E # 0
  BY <1>1, <1>2
<1>5. /\ e = E /\ r = 0 => classify(f, w) = IF t = 1 THEN 1 ELSE 128
      /\ e = E /\ r # 0 => classify(f, w) = IF r < Q THEN 256 ELSE 512
      /\ e = 0 /\ r = 0 => classify(f, w) = IF t = 1 THEN 8 ELSE 16
      /\ e = 0 /\ r # 0 => classify(f, w) = IF t = 1 THEN 4 ELSE 32
      /\ e # E /\ e # 0 => classify(f, w) = IF t = 1 THEN 2 ELSE 64
  BY <1>3, <1>4
<1>6. QED
  BY <1>2, <1>5

\* fclass of every pattern of every width gives the bit of its place in the order.
THEOREM ClassesOrdered == FloatSpec => []ClassAgrees
<1>1. FloatInv => ClassAgrees
  <2>1. SUFFICES ASSUME FloatInv, NEW f \in Format, Done("fclass", f)
                 PROVE  LET w == Operand(f, 1)
                            m == Magnitude(f, w)
                            place == IF m = 0 THEN 4 ELSE IF m < Unit(f) THEN 5
                                     ELSE IF m < Inf(f) THEN 6 ELSE 7
                        IN  xd = IF m > Inf(f) THEN 2^(IF m - Inf(f) < QuietBit(f) THEN 8 ELSE 9)
                                 ELSE 2^(IF sign(f, w) = 1 THEN 7 - place ELSE place)
    BY Zenon DEF ClassAgrees, Unit
  <2>2. PICK w \in Pattern(f) : w = Operand(f, 1)
    BY <2>1, Operands
  <2>3. xd = classify(f, w)
    BY <2>1, <2>2, DoneRan DEF Ran
  <2>4. PICK m \in Nat : m = Magnitude(f, w)
    BY Parts
  <2>5. PICK I \in Nat, U \in Nat, Q \in Nat : I = Inf(f) /\ U = Unit(f) /\ Q = QuietBit(f) /\ U <= I /\ U > 0
    BY Fields, MagnitudeOrder
  <2>6. /\ m = 0 <=> exp(f, w) = 0 /\ frac(f, w) = 0
        /\ m < U <=> exp(f, w) = 0
        /\ m < I <=> exp(f, w) # EMax(f)
        /\ exp(f, w) = EMax(f) => m = I + frac(f, w)
        /\ frac(f, w) \in Nat /\ (exp(f, w) = EMax(f) => exp(f, w) # 0)
    <3>1. frac(f, w) \in 0 .. (Unit(f) - 1) /\ Unit(f) \in Nat /\ EMax(f) > 0 /\ EMax(f) \in Nat
      BY Parts, Fields, Zenon
    <3>2. frac(f, w) \in Nat /\ EMax(f) # 0
      BY <3>1
    <3>3. QED
      BY <2>4, <2>5, <3>2, MagnitudeOrder, Zenon
  <2>7. CASE m > I
    <3>1. m - I = frac(f, w) /\ exp(f, w) = EMax(f) /\ frac(f, w) # 0
      BY <2>6, <2>7
    <3>2. xd = IF m - I < Q THEN 2^8 ELSE 2^9
      BY <2>3, <2>5, <3>1, Classified, OneBit
    <3>3. QED
      BY <2>2, <2>4, <2>5, <2>7, <3>2
  <2>8. ASSUME NEW p \in {4, 5, 6, 7}, ~(m > I),
               p = IF m = 0 THEN 4 ELSE IF m < U THEN 5 ELSE IF m < I THEN 6 ELSE 7
        PROVE  xd = IF sign(f, w) = 1 THEN 2^(7 - p) ELSE 2^p
    <3>1. CASE p = 4
      <4>1. exp(f, w) = 0 /\ frac(f, w) = 0 /\ 7 - p = 3
        BY <2>6, <2>8, <3>1
      <4>2. QED
        BY <2>3, <3>1, <4>1, Classified, OneBit
    <3>2. CASE p = 5
      <4>1. exp(f, w) = 0 /\ frac(f, w) # 0 /\ 7 - p = 2
        BY <2>6, <2>8, <3>2
      <4>2. QED
        BY <2>3, <3>2, <4>1, Classified, OneBit
    <3>3. CASE p = 6
      <4>1. exp(f, w) # EMax(f) /\ exp(f, w) # 0 /\ 7 - p = 1
        BY <2>6, <2>8, <3>3
      <4>2. QED
        BY <2>3, <3>3, <4>1, Classified, OneBit
    <3>4. CASE p = 7
      <4>1. exp(f, w) = EMax(f) /\ frac(f, w) = 0 /\ 7 - p = 0
        BY <2>5, <2>6, <2>8, <3>4
      <4>2. QED
        BY <2>3, <3>4, <4>1, Classified, OneBit
    <3>5. QED
      BY <3>1, <3>2, <3>3, <3>4
  <2>9. CASE ~(m > I)
    <3>1. PICK p \in {4, 5, 6, 7} :
            p = IF m = 0 THEN 4 ELSE IF m < U THEN 5 ELSE IF m < I THEN 6 ELSE 7
      OBVIOUS
    <3>2. xd = 2^(IF sign(f, w) = 1 THEN 7 - p ELSE p)
      BY <2>8, <2>9, <3>1
    <3>3. QED
      BY <2>2, <2>4, <2>5, <2>9, <3>1, <3>2, Zenon
  <2>10. QED
    BY <2>7, <2>9
<1>2. QED
  BY <1>1, FloatInvariant, PTL

-----------------------------------------------------------------------------
(* Minimum and maximum.                                                    *)

\* Comparisons are those of integers.
LEMMA Compared ==
  ASSUME NEW f \in Format, NEW a \in Pattern(f), NEW b \in Pattern(f), ~Unordered(f, a, b)
  PROVE  /\ Order(f, a) \in Int
         /\ Less(f, a, b) <=> Order(f, a) < Order(f, b)
         /\ Order(f, a) <= Order(f, b) => compare(f, "fle", a, b) = 1
<1>1. Order(f, a) \in Int /\ Order(f, b) \in Int
  BY Parts, Fields DEF Order
<1>2. /\ Less(f, a, b) <=> Order(f, a) < Order(f, b)
      /\ Equal(f, a, b) <=> Order(f, a) = Order(f, b)
  BY DEF Less, Equal
<1>3. Less(f, a, b) \/ Equal(f, a, b) => compare(f, "fle", a, b) = 1
  BY OneBit DEF compare, Bit
<1>4. QED
  BY <1>1, <1>2, <1>3

\* fmin and fmax of any two patterns that are not NaN are one of the two, and in the
\* order that fle reports; with a NaN they are rs2.
THEOREM MinMax == FloatSpec => []MinMaxOrdered
<1>1. FloatInv => MinMaxOrdered
  <2>1. SUFFICES ASSUME FloatInv, NEW f \in Format, NEW o \in {"fmin", "fmax"}, Done(o, f)
                 PROVE  LET a == Operand(f, 1)
                            b == Operand(f, 2)
                            r == Result(f)
                        IN  /\ o = "fmin" /\ ~Unordered(f, a, b) =>
                                 compare(f, "fle", r, a) = 1 /\ compare(f, "fle", r, b) = 1
                            /\ o = "fmax" /\ ~Unordered(f, a, b) =>
                                 compare(f, "fle", a, r) = 1 /\ compare(f, "fle", b, r) = 1
                            /\ r \in {a, b} /\ (Unordered(f, a, b) => r = b)
    <3>1. ASSUME FloatInv, NEW f \in Format, op[1] \in {"fmin", "fmax"}, op[2] = f PROVE Done(op[1], f)
      BY <3>1 DEF FloatInv, Done
    <3>2. ASSUME NEW f, NEW o, Done(o, f) PROVE op[1] = o /\ op[2] = f
      BY <3>2 DEF Done
    <3>3. QED
      BY <3>1, <3>2 DEF MinMaxOrdered
  <2>2. PICK a \in Pattern(f), b \in Pattern(f) : a = Operand(f, 1) /\ b = Operand(f, 2)
    BY <2>1, Operands
  <2>3. Result(f) = IF o = "fmin" THEN (IF Less(f, a, b) THEN a ELSE b)
                    ELSE (IF Less(f, b, a) THEN a ELSE b)
    <3>1. PICK v \in arith(f, o, a, b) : fd = Put(f, v)
      BY <2>1, <2>2, DoneRan DEF Ran, ArithOps
    <3>2. v = IF o = "fmin" THEN (IF Less(f, a, b) THEN a ELSE b) ELSE (IF Less(f, b, a) THEN a ELSE b)
      BY <3>1 DEF arith
    <3>3. v \in Pattern(f)
      BY <3>2
    <3>4. QED
      BY <3>1, <3>2, <3>3, Members DEF Result
  <2>4. /\ Unordered(f, a, b) <=> Unordered(f, b, a)
        /\ Unordered(f, a, b) => ~Less(f, a, b) /\ ~Less(f, b, a)
        /\ ~Unordered(f, a, b) => ~Unordered(f, a, a) /\ ~Unordered(f, b, b)
    BY DEF Unordered, Less
  <2>5. Result(f) \in {a, b} /\ (Unordered(f, a, b) => Result(f) = b)
    BY <2>3, <2>4
  <2>6. ASSUME ~Unordered(f, a, b)
        PROVE  /\ o = "fmin" => compare(f, "fle", Result(f), a) = 1 /\ compare(f, "fle", Result(f), b) = 1
               /\ o = "fmax" => compare(f, "fle", a, Result(f)) = 1 /\ compare(f, "fle", b, Result(f)) = 1
    <3>1. /\ Order(f, a) \in Int /\ Order(f, b) \in Int
          /\ Less(f, a, b) <=> Order(f, a) < Order(f, b)
          /\ Less(f, b, a) <=> Order(f, b) < Order(f, a)
          /\ Order(f, a) <= Order(f, b) => compare(f, "fle", a, b) = 1
          /\ Order(f, b) <= Order(f, a) => compare(f, "fle", b, a) = 1
          /\ Order(f, a) <= Order(f, a) => compare(f, "fle", a, a) = 1
          /\ Order(f, b) <= Order(f, b) => compare(f, "fle", b, b) = 1
      BY <2>4, <2>6, Compared
    <3>2. QED
      BY <2>3, <3>1
  <2>7. QED
    BY <2>2, <2>5, <2>6
<1>2. QED
  BY <1>1, FloatInvariant, PTL

-----------------------------------------------------------------------------
(* Powers of two.                                                          *)

\* A set of natural numbers has a least one.
LEMMA Least ==
  ASSUME NEW S, S \subseteq Nat, S # {}
  PROVE  \E i \in S : \A j \in S : i <= j
<1> DEFINE R == {ss \in Nat \X Nat : ss[1] < ss[2]}
<1>1. IsWellFoundedOn(R, Nat)
  BY NatLessThanWellFounded DEF OpToRel
<1> HIDE DEF R
<1>2. PICK i \in S : \A j \in S : ~(<<j, i>> \in R)
  BY <1>1, WFMin, Zenon
<1>3. ASSUME NEW j \in S PROVE i <= j
  <2>1. i \in Nat /\ j \in Nat
    OBVIOUS
  <2>2. j < i => <<j, i>> \in R
    BY <2>1 DEF R
  <2>3. QED
    BY <1>2, <2>1, <2>2
<1>4. QED
  BY <1>3

\* The places that the proofs use.
LEMMA Places ==
  /\ MaxPlace \in Nat /\ MaxPlace = XLen + FracBits["d"] + 2
  /\ XLen \in Nat /\ WLen \in Nat /\ WLen > 0 /\ XLen = 2 * WLen
  /\ \A f \in Format :
       /\ FracBits[f] \in Nat /\ FracBits[f] > 1 /\ ExpBits[f] \in Nat /\ ExpBits[f] > 3
       /\ FracBits[f] <= FracBits["d"] /\ 1 + ExpBits[f] + FracBits[f] <= XLen
       /\ 2 * FracBits[f] + 5 <= MaxPlace
<1>1. /\ WLen \in Nat /\ XLen = 2 * WLen
      /\ \A f \in Format : /\ FracBits[f] \in Nat /\ FracBits[f] > 1 /\ ExpBits[f] \in Nat
                           /\ ExpBits[f] > 0 /\ 1 + ExpBits[f] + FracBits[f] = Width(f)
                           /\ 2^(ExpBits[f] - 1) > XLen
      /\ FracBits["d"] + 1 >= WLen
  BY IeeeAssumption
<1>2. \A f \in Format : Width(f) <= XLen /\ (f = "s" => Width(f) = WLen) /\ (f = "d" => Width(f) = XLen)
  BY <1>1 DEF Width, Format
<1>3. \A f \in Format : ExpBits[f] > 3
  <2>1. SUFFICES ASSUME NEW f \in Format, ExpBits[f] <= 3 PROVE FALSE
    BY <1>1
  <2>2. XLen >= 1 + ExpBits[f] + FracBits[f]
    BY <1>1, <1>2
  <2>3. ExpBits[f] - 1 \in {0, 1, 2}
    BY <1>1, <2>1
  <2>4. PICK k \in {0, 1, 2} : k = ExpBits[f] - 1 /\ ExpBits[f] = k + 1
    BY <1>1, <2>3
  <2>5. 2^(ExpBits[f] - 1) <= ExpBits[f] + 1 /\ 2^(ExpBits[f] - 1) \in Int
    <3>1. PICK p : p = 2^k
      OBVIOUS
    <3>2. (k = 0 => p = 1) /\ (k = 1 => p = 2) /\ (k = 2 => p = 4)
      BY <3>1, OneBit, Zenon
    <3>3. p \in Int /\ p <= k + 2
      BY <3>2
    <3>4. 2^(ExpBits[f] - 1) = p
      BY <2>4, <3>1, Zenon
    <3>5. QED
      BY <2>4, <3>3, <3>4
  <2>6. PICK p \in Int : p = 2^(ExpBits[f] - 1)
    BY <2>5
  <2>7. QED
    BY <1>1, <2>2, <2>5, <2>6
<1>4. "d" \in Format /\ Format = {"s", "d"}
  BY DEF Format
<1>5. QED
  BY <1>1, <1>2, <1>3, <1>4 DEF MaxPlace

\* Powers of two grow.
LEMMA Powers ==
  ASSUME NEW k \in 0 .. MaxPlace
  PROVE  /\ 2^k \in Nat /\ 2^k > k /\ 2^k > 0
         /\ \A l \in 0 .. (MaxPlace - k) : 2^(k + l) = 2^k * 2^l /\ 2^k <= 2^(k + l)
         /\ k < MaxPlace => 2^(k + 1) = 2 * 2^k
         /\ k > 0 => 2^k = 2 * 2^(k - 1) /\ 2^(k - 1) \in Nat
<1>1. MaxPlace \in Nat /\ k \in Int /\ k >= 0 /\ k <= MaxPlace
  BY Places
<1>2. 2^k \in Nat /\ 2^k > k /\ 2^k > 0
  BY <1>1, PowerAssumption
<1>3. ASSUME NEW l \in 0 .. (MaxPlace - k) PROVE 2^(k + l) = 2^k * 2^l /\ 2^k <= 2^(k + l)
  <2>1. 2^(k + l) = 2^k * 2^l
    BY <1>1, PowerAssumption
  <2>2. l \in 0 .. MaxPlace
    BY <1>1
  <2>3. PICK a \in Nat, b \in Nat : a = 2^k /\ b = 2^l /\ b > 0
    BY <1>2, <2>2, PowerAssumption
  <2>4. 1 * a <= b * a /\ a * b = b * a
    <3>1. 1 \in Int /\ b \in Int /\ 1 <= b
      BY <2>3
    <3>2. QED
      BY ONLY <3>1, a \in Nat, Scaled
  <2>5. QED
    BY <2>1, <2>3, <2>4
<1>4. PICK l \in Int : l = 1 /\ 2^l = 2
  BY OneBit, 1 \in Int, ZenonT(60)
<1>5. k < MaxPlace => 2^(k + 1) = 2 * 2^k
  <2>1. k < MaxPlace => l \in 0 .. (MaxPlace - k) /\ k + l = k + 1
    BY <1>1, <1>4
  <2>2. k < MaxPlace => 2^(k + l) = 2^k * 2^l
    BY <2>1, PowerAssumption, Zenon
  <2>3. QED
    BY <1>2, <1>4, <2>1, <2>2
<1>6. k > 0 => 2^k = 2 * 2^(k - 1) /\ 2^(k - 1) \in Nat
  <2>1. SUFFICES ASSUME k > 0 PROVE 2^k = 2 * 2^(k - 1) /\ 2^(k - 1) \in Nat
    OBVIOUS
  <2>2. k - 1 \in 0 .. MaxPlace /\ l \in 0 .. (MaxPlace - (k - 1)) /\ (k - 1) + l = k
    BY <1>1, <1>4, <2>1
  <2>3. 2^((k - 1) + l) = 2^(k - 1) * 2^l /\ 2^(k - 1) \in Nat
    BY <2>2, PowerAssumption
  <2>4. QED
    BY <1>4, <2>2, <2>3
<1>7. QED
  BY <1>2, <1>3, <1>5, <1>6

\* Log2 is the place of the leading one.
LEMMA LeadingOne ==
  ASSUME NEW m \in Nat, m > 0, NEW n \in 0 .. MaxPlace, m < 2^n
  PROVE  Log2(m) \in 0 .. (n - 1) /\ 2^Log2(m) <= m /\ m < 2^(Log2(m) + 1)
<1> DEFINE S == {j \in 0 .. n : m < 2^j}
           P(k) == m < 2^(k + 1) /\ \A j \in 0 .. k : 2^j <= m
<1>1. MaxPlace \in Nat /\ n \in Nat /\ n <= MaxPlace
  BY Places
<1>2. PICK i \in S : \A j \in S : i <= j
  <2>1. S \subseteq Nat /\ n \in S
    BY <1>1
  <2>2. QED
    BY <2>1, Least
<1>3. i \in Nat /\ i <= n /\ m < 2^i
  BY <1>1, <1>2
<1>4. i # 0
  <2>1. i = 0 => 2^i = 1
    BY OneBit, Zenon
  <2>2. QED
    BY <1>3, <2>1
<1>5. ASSUME NEW j \in 0 .. (i - 1) PROVE 2^j <= m
  <2>1. j \in 0 .. n /\ ~(i <= j) /\ j \in 0 .. MaxPlace
    BY <1>1, <1>3
  <2>2. ~(m < 2^j)
    BY <1>2, <2>1
  <2>3. 2^j \in Nat
    BY <2>1, Powers
  <2>4. QED
    BY <2>2, <2>3
<1>6. PICK k \in Nat : k = i - 1 /\ i = k + 1
  BY <1>3, <1>4
<1>7. P(k)
  BY <1>3, <1>5, <1>6
<1>8. k \in 0 .. m
  <2>1. k \in 0 .. MaxPlace /\ k \in 0 .. (i - 1)
    BY <1>1, <1>3, <1>6
  <2>2. 2^k > k /\ 2^k \in Nat /\ 2^k <= m
    BY <1>5, <2>1, Powers
  <2>3. QED
    BY <2>2
<1>9. PICK L : L \in 0 .. m /\ P(L) /\ Log2(m) = L
  <2>1. Log2(m) = CHOOSE j \in 0 .. m : P(j)
    BY DEF Log2
  <2>2. \E j \in 0 .. m : P(j)
    BY <1>7, <1>8
  <2> HIDE DEF P
  <2>3. QED
    BY <2>1, <2>2
<1>10. L <= k
  <2>1. SUFFICES ASSUME ~(L <= k) PROVE FALSE
    OBVIOUS
  <2>2. i \in 0 .. L
    BY <1>3, <1>6, <1>9, <2>1
  <2>3. 2^i <= m
    BY <1>9, <2>2
  <2>4. 2^i \in Nat
    BY <1>1, <1>3, Powers
  <2>5. QED
    BY <1>3, <2>3, <2>4
<1>11. QED
  BY <1>3, <1>6, <1>9, <1>10

-----------------------------------------------------------------------------
(* Rounding.                                                               *)

\* The place of the least exponent is an integer.
LEMMA Scales ==
  ASSUME NEW f \in Format
  PROVE  /\ 2^(ExpBits[f] - 1) \in Nat /\ 2^(ExpBits[f] - 1) > XLen
         /\ EMax(f) = 2 * 2^(ExpBits[f] - 1) - 1
         /\ scaleMin(f) \in Int /\ scaleMin(f) = 2 - 2^(ExpBits[f] - 1) - FracBits[f]
<1>1. ExpBits[f] \in 0 .. MaxPlace /\ ExpBits[f] > 0 /\ FracBits[f] \in Nat
  <2>1. /\ FracBits[f] \in Nat /\ ExpBits[f] \in Nat /\ ExpBits[f] > 3 /\ FracBits["d"] \in Nat
        /\ MaxPlace = XLen + FracBits["d"] + 2 /\ 1 + ExpBits[f] + FracBits[f] <= XLen /\ XLen \in Nat
    BY Places DEF Format
  <2>2. QED
    BY <2>1
<1>2. 2^(ExpBits[f] - 1) \in Nat /\ 2^ExpBits[f] = 2 * 2^(ExpBits[f] - 1)
  BY <1>1, Powers
<1>3. 2^(ExpBits[f] - 1) > XLen
  BY IeeeAssumption
<1>4. QED
  BY <1>1, <1>2, <1>3 DEF EMax, scaleMin

\* Rounding a quotient to an integer.
LEMMA Shifted ==
  ASSUME NEW m \in Nat, NEW k \in 0 .. MaxPlace
  PROVE  \E q \in Nat, r \in Nat :
           /\ m = q * 2^k + r /\ r < 2^k
           /\ RoundShift(m, k) = IF 2 * r > 2^k \/ (2 * r = 2^k /\ q % 2 = 1) THEN q + 1 ELSE q
<1>1. PICK P \in Nat : P = 2^k /\ P > 0
  BY Powers
<1>2. PICK q, r \in Int : m = q * P + r /\ 0 <= r /\ r < P /\ m % P = r /\ m \div P = q
  BY <1>1, DivModOf
<1>3. q >= 0
  <2>1. q < 0 => q * P + P <= 0 * P
    <3>1. 0 \in Int
      OBVIOUS
    <3>2. QED
      BY ONLY <3>1, q \in Int, P \in Nat, Scaled
  <2>2. PICK i \in Int : i = q * P
    BY <1>1, <1>2
  <2>3. m = i + r /\ r < P /\ (q < 0 => i + P <= 0) /\ m >= 0
    BY <1>1, <1>2, <2>1, <2>2
  <2>4. QED
    BY ONLY <2>3, i \in Int, m \in Nat, q \in Int, r \in Int, P \in Nat
<1>4. RoundShift(m, k) = IF 2 * r > P \/ (2 * r = P /\ q % 2 = 1) THEN q + 1 ELSE q
  BY <1>1, <1>2, Zenon DEF RoundShift
<1>5. q \in Nat /\ r \in Nat
  BY <1>2, <1>3
<1>6. QED
  BY <1>1, <1>2, <1>4, <1>5, Zenon

\* The result of a rounding is a sign and a magnitude, which is that of a number or of
\* infinity and does not depend on the sign.
LEMMA RoundParts ==
  ASSUME NEW f \in Format, NEW m \in Nat, m < 2^MaxPlace, NEW e \in Int
  PROVE  \E v \in 0 .. Inf(f) : \A s \in {0, 1} : Round(f, s, m, e) = Signum(f, s) + v
<1>1. /\ Inf(f) \in Nat /\ Top(f) \in Nat /\ Unit(f) \in Nat /\ Unit(f) > 0
  <2>1. 0 \in Pattern(f)
    BY Fields DEF Pattern
  <2>2. QED
    BY <2>1, Fields, MagnitudeOrder
<1>2. CASE m = 0
  <2>1. \A s \in {0, 1} : Round(f, s, m, e) = Signum(f, s) + 0
    <3>1. \A s \in {0, 1} : Signum(f, s) \in Int /\ Round(f, s, m, e) = Signum(f, s)
      BY <1>1, <1>2 DEF Round, Signum, Top
    <3>2. QED
      BY <3>1
  <2>2. QED
    BY <1>1, <2>1
<1>3. CASE m # 0
  <2> DEFINE L == Log2(m)
             ideal == L + e - FracBits[f]
             q == IF ideal < scaleMin(f) THEN scaleMin(f) ELSE ideal
             n == IF q <= e THEN m * 2^(e - q)
                  ELSE IF q - e > L + 1 THEN 0 ELSE RoundShift(m, q - e)
             word == (q - scaleMin(f)) * 2^FracBits[f] + n
             v == IF word >= Inf(f) THEN Inf(f) ELSE word
  <2>1. L \in Nat /\ L < MaxPlace
    <3>1. MaxPlace \in 0 .. MaxPlace /\ MaxPlace \in Nat
      BY Places
    <3>2. L \in 0 .. (MaxPlace - 1)
      BY <1>3, <3>1, LeadingOne
    <3>3. QED
      BY <3>1, <3>2
  <2>2. scaleMin(f) \in Int /\ FracBits[f] \in Nat /\ FracBits[f] <= MaxPlace
    <3>1. "d" \in Format
      BY DEF Format
    <3>2. QED
      BY <3>1, Scales, Places
  <2> HIDE DEF L
  <2>3. q \in Int /\ q >= scaleMin(f) /\ q >= L + e - FracBits[f]
    BY <2>1, <2>2
  <2> HIDE DEF q
  <2>4. n \in Nat
    <3>1. CASE q <= e
      <4>1. e - q \in 0 .. MaxPlace
        BY <2>1, <2>2, <2>3, <3>1, Places
      <4>2. 2^(e - q) \in Nat
        BY <4>1, Powers
      <4>3. QED
        BY <3>1, <4>2, Scaled
    <3>2. CASE ~(q <= e) /\ ~(q - e > L + 1)
      <4>1. q - e \in 0 .. MaxPlace
        BY <2>1, <2>3, <3>2, Places
      <4>2. RoundShift(m, q - e) \in Nat
        BY <4>1, Shifted
      <4>3. QED
        BY <3>2, <4>2
    <3>3. QED
      BY <3>1, <3>2
  <2>5. word \in Nat
    <3>1. PICK i \in Nat : i = q - scaleMin(f)
      BY <2>2, <2>3
    <3>2. i * Unit(f) \in Nat
      BY <1>1, <3>1, Scaled
    <3>3. word = i * Unit(f) + n
      BY <3>1 DEF Unit
    <3> HIDE DEF n, word
    <3>4. QED
      BY <2>4, <3>2, <3>3
  <2>6. \A s \in {0, 1} : Round(f, s, m, e) = Signum(f, s) + v
    BY <1>3, Zenon DEF Round, L, q
  <2> HIDE DEF word
  <2>7. v \in 0 .. Inf(f)
    BY <1>1, <2>5
  <2> HIDE DEF v
  <2>8. QED
    BY <2>6, <2>7
<1>4. QED
  BY <1>2, <1>3

-----------------------------------------------------------------------------
(* The multiply-add handlers.                                              *)

\* Exponent and fraction are those of the magnitude.
LEMMA SameMagnitude ==
  ASSUME NEW f \in Format, NEW u \in Pattern(f), NEW w \in Pattern(f), Magnitude(f, u) = Magnitude(f, w)
  PROVE  /\ exp(f, u) = exp(f, w) /\ frac(f, u) = frac(f, w)
         /\ mant(f, u) = mant(f, w) /\ scale(f, u) = scale(f, w)
         /\ isNaN(f, u) <=> isNaN(f, w)
         /\ isInf(f, u) <=> isInf(f, w)
         /\ isZero(f, u) <=> isZero(f, w)
<1>1. PICK U \in Nat : U = Unit(f) /\ U > 0
  BY Fields
<1>2. ASSUME NEW a \in Pattern(f) PROVE exp(f, a) = Magnitude(f, a) \div U /\ frac(f, a) = Magnitude(f, a) % U
  <2>1. PICK e, r \in Int : e = exp(f, a) /\ r = frac(f, a) /\ 0 <= r /\ r < U /\ Magnitude(f, a) = e * U + r
    <3>1. exp(f, a) \in 0 .. EMax(f) /\ frac(f, a) \in 0 .. (Unit(f) - 1)
          /\ Magnitude(f, a) = exp(f, a) * Unit(f) + frac(f, a)
      BY Parts
    <3>2. QED
      BY <1>1, <3>1, Fields
  <2>2. (e * U + r) % U = r /\ (e * U + r) \div U = e
    BY <1>1, <2>1, DivMod
  <2>3. QED
    BY <2>1, <2>2
<1>3. exp(f, u) = exp(f, w) /\ frac(f, u) = frac(f, w)
  BY <1>2
<1>4. QED
  BY <1>3, Zenon DEF mant, scale, isNaN, isInf, isZero

\* Changing the sign.
LEMMA Negated ==
  ASSUME NEW f \in Format, NEW w \in Pattern(f)
  PROVE  /\ Negative(f, w) \in Pattern(f) /\ Magnitude(f, Negative(f, w)) = Magnitude(f, w)
         /\ sign(f, Negative(f, w)) = 1 - sign(f, w)
         /\ \A s \in {0, 1}, v \in 0 .. Inf(f) : w = Signum(f, s) + v => Negative(f, w) = Signum(f, 1 - s) + v
<1>1. sign(f, w) \in {0, 1} /\ Magnitude(f, w) \in 0 .. (Top(f) - 1)
  BY Parts
<1>2. 1 - sign(f, w) \in {0, 1}
  BY <1>1
<1>3. Negative(f, w) = Magnitude(f, w) + Signum(f, 1 - sign(f, w))
  BY DEF Negative
<1>4. /\ Negative(f, w) \in Pattern(f) /\ Magnitude(f, Negative(f, w)) = Magnitude(f, w)
      /\ sign(f, Negative(f, w)) = 1 - sign(f, w)
  BY <1>1, <1>2, <1>3, FromParts
<1>5. ASSUME NEW s \in {0, 1}, NEW v \in 0 .. Inf(f), w = Signum(f, s) + v
      PROVE  Negative(f, w) = Signum(f, 1 - s) + v
  <2>1. v \in 0 .. (Top(f) - 1)
    BY Fields, MagnitudeOrder
  <2>2. sign(f, w) = s /\ Magnitude(f, w) = v
    BY <1>5, <2>1, FromParts
  <2>3. QED
    BY <1>2, <1>3, <2>1, <2>2, FromParts
<1>6. QED
  BY <1>4, <1>5

\* A quiet NaN is a pattern, and is a NaN.
LEMMA QuietNaNs ==
  ASSUME NEW f \in Format, NEW ws \in SUBSET Pattern(f), NEW v \in NaNs(f, ws)
  PROVE  v \in Pattern(f) /\ isNaN(f, v)
<1>1. PICK Q \in Nat : Q = QuietBit(f) /\ Q > 0 /\ Unit(f) = 2 * Q
  BY Fields
<1>2. PICK s \in {0, 1}, p \in Int : v = Signum(f, s) + p /\ Inf(f) + Q <= p /\ p < Inf(f) + 2 * Q
  <2>1. 0 \in Pattern(f)
    BY Fields DEF Pattern
  <2>2. Inf(f) \in Nat
    BY <2>1, MagnitudeOrder
  <2>3. ASSUME NEW w \in ws PROVE frac(f, w) % Q \in 0 .. (Q - 1)
    <3>1. frac(f, w) \in 0 .. (Unit(f) - 1)
      BY Parts
    <3>2. frac(f, w) \in Int
      BY <1>1, <3>1
    <3>3. QED
      BY <1>1, <3>2
  <2>4. PICK s, p : /\ s \in {0, 1} /\ v = Signum(f, s) + p
                    /\ \/ p = Inf(f) + Q
                       \/ \E w \in ws : p = Inf(f) + Q + (frac(f, w) % Q)
    BY <1>1 DEF NaNs
  <2>5. p \in Int /\ Inf(f) + Q <= p /\ p < Inf(f) + 2 * Q
    BY <1>1, <2>2, <2>3, <2>4
  <2>6. QED
    BY <2>4, <2>5
<1>3. p \in 0 .. (Top(f) - 1)
  <2>1. 0 \in Pattern(f)
    BY Fields DEF Pattern
  <2>2. Inf(f) \in Nat /\ Inf(f) + Unit(f) = Top(f)
    BY <2>1, MagnitudeOrder
  <2>3. QED
    BY <1>1, <1>2, <2>2
<1>4. v \in Pattern(f) /\ Magnitude(f, v) = p
  BY <1>2, <1>3, FromParts
<1>5. /\ Inf(f) \in Nat /\ (Magnitude(f, v) < Inf(f) <=> exp(f, v) # EMax(f))
      /\ exp(f, v) = EMax(f) => Magnitude(f, v) = Inf(f) + frac(f, v)
  BY <1>4, MagnitudeOrder
<1>6. exp(f, v) = EMax(f)
  BY <1>1, <1>2, <1>4, <1>5
<1>7. frac(f, v) # 0
  BY <1>1, <1>2, <1>4, <1>5, <1>6
<1>8. QED
  BY <1>4, <1>6, <1>7 DEF isNaN

\* What is not NaN has a magnitude up to infinity.
LEMMA NotNaN ==
  ASSUME NEW f \in Format, NEW s \in {0, 1}, NEW v \in 0 .. Inf(f)
  PROVE  Signum(f, s) + v \in Pattern(f) /\ ~isNaN(f, Signum(f, s) + v) /\ Magnitude(f, Signum(f, s) + v) = v
<1>1. v \in 0 .. (Top(f) - 1) /\ Inf(f) \in Nat
  <2>1. 0 \in Pattern(f)
    BY Fields DEF Pattern
  <2>2. QED
    BY <2>1, Fields, MagnitudeOrder
<1>2. PICK w \in Pattern(f) : w = Signum(f, s) + v /\ Magnitude(f, w) = v
  BY <1>1, FromParts
<1>3. /\ exp(f, w) = EMax(f) => Magnitude(f, w) = Inf(f) + frac(f, w)
      /\ frac(f, w) \in 0 .. (Unit(f) - 1) /\ Unit(f) \in Nat
  BY MagnitudeOrder, Parts, Fields
<1>4. ~isNaN(f, w)
  BY <1>1, <1>2, <1>3 DEF isNaN
<1>5. QED
  BY <1>2, <1>4

\* The mantissa and the scale of a pattern.
LEMMA Mantissas ==
  ASSUME NEW f \in Format, NEW w \in Pattern(f)
  PROVE  /\ mant(f, w) \in Nat /\ mant(f, w) < 2 * Unit(f)
         /\ scale(f, w) \in Int /\ SignedMant(f, w) \in Int
         /\ -(2 * Unit(f)) < SignedMant(f, w) /\ SignedMant(f, w) < 2 * Unit(f)
<1>1. exp(f, w) \in 0 .. EMax(f) /\ frac(f, w) \in 0 .. (Unit(f) - 1)
  BY Parts
<1>2. EMax(f) \in Nat /\ Unit(f) \in Nat /\ Unit(f) > 0 /\ scaleMin(f) \in Int
  BY Fields, Scales
<1>3. mant(f, w) \in Nat /\ mant(f, w) < 2 * Unit(f)
  <2>1. mant(f, w) = IF exp(f, w) = 0 THEN frac(f, w) ELSE Unit(f) + frac(f, w)
    BY Zenon DEF mant, Unit
  <2>2. QED
    BY <1>1, <1>2, <2>1
<1>4. scale(f, w) \in Int
  BY <1>1, <1>2 DEF scale
<1>5. QED
  BY <1>2, <1>3, <1>4 DEF SignedMant

\* Products and sums of mantissas have a place for their leading one.
LEMMA MantissaPlaces ==
  ASSUME NEW f \in Format
  PROVE  /\ \A i, j \in Nat : i < 2 * Unit(f) /\ j < 2 * Unit(f) => i * j \in Nat /\ i * j < 2^MaxPlace
         /\ \A i, j \in Int, k \in 0 .. (FracBits[f] + 3) :
              /\ -(2 * Unit(f)) < i /\ i < 2 * Unit(f)
              /\ -(2 * Unit(f)) < j /\ j < 2 * Unit(f)
              => i * 2^k + j \in Int /\ -(2^MaxPlace) < i * 2^k + j /\ i * 2^k + j < 2^MaxPlace
<1>1. /\ FracBits[f] \in Nat /\ MaxPlace \in Nat /\ 2 * FracBits[f] + 5 <= MaxPlace
      /\ FracBits[f] \in 0 .. MaxPlace
  BY Places
<1>2. PICK Fb \in Nat : Fb = FracBits[f] /\ 2 * Fb + 5 <= MaxPlace /\ Unit(f) = 2^Fb
  BY <1>1 DEF Unit
<1>3. PICK A \in Nat : A = 2^(Fb + 1) /\ A = 2 * Unit(f) /\ A > 0
  <2>1. Fb \in 0 .. MaxPlace /\ Fb < MaxPlace
    BY <1>1, <1>2
  <2>2. 2^(Fb + 1) = 2 * 2^Fb /\ 2^Fb \in Nat /\ 2^Fb > 0
    BY <2>1, Powers, Zenon
  <2>3. QED
    BY <1>2, <2>2
<1>4. PICK Z \in Nat : Z = 2^MaxPlace
  BY <1>1, Powers
<1>5. ASSUME NEW i \in Nat, NEW j \in Nat, i < A, j < A PROVE i * j \in Nat /\ i * j < Z
  <2>1. A * A = 2^((Fb + 1) + (Fb + 1)) /\ 2^((Fb + 1) + (Fb + 1)) <= Z
    <3>1. Fb + 1 \in 0 .. MaxPlace /\ Fb + 1 \in 0 .. (MaxPlace - (Fb + 1))
      BY <1>1, <1>2
    <3>2. 2^((Fb + 1) + (Fb + 1)) = 2^(Fb + 1) * 2^(Fb + 1)
      BY <3>1, Powers, Zenon
    <3>3. PICK k, l \in Int : k = (Fb + 1) + (Fb + 1) /\ l = MaxPlace - k /\ k + l = MaxPlace
                             /\ k \in 0 .. MaxPlace /\ l \in 0 .. (MaxPlace - k)
      BY <1>1, <1>2
    <3>4. 2^k <= 2^(k + l)
      BY <3>3, Powers, Zenon
    <3>5. QED
      BY <1>3, <1>4, <3>2, <3>3, <3>4, Zenon
  <2>2. i * j <= i * A /\ i * A + A <= A * A
    <3>1. j * i <= A * i
      <4>1. j \in Int /\ A \in Int /\ j <= A /\ i \in Nat
        BY <1>5
      <4>2. QED
        BY ONLY <4>1, Scaled
    <3>2. i * A + A <= A * A
      <4>1. i \in Int /\ A \in Int /\ i < A /\ A \in Nat
        BY <1>5
      <4>2. QED
        BY ONLY <4>1, Scaled
    <3>3. j * i = i * j /\ A * i = i * A
      OBVIOUS
    <3>4. QED
      BY <3>1, <3>2, <3>3
  <2>3. PICK x1, y, z \in Int : x1 = i * j /\ y = i * A /\ z = A * A
    OBVIOUS
  <2>4. z <= Z
    <3>1. 2^((Fb + 1) + (Fb + 1)) = z
      BY <2>1, <2>3
    <3>2. QED
      BY <2>1, <3>1
  <2>5. x1 <= y /\ y + A <= z
    BY <2>2, <2>3
  <2>6. x1 < Z
    BY ONLY <1>3, <2>4, <2>5, x1 \in Int, y \in Int, z \in Int, A \in Nat, Z \in Nat
  <2>7. i * j \in Nat
    BY Scaled
  <2>8. QED
    BY <2>3, <2>6, <2>7
<1>6. ASSUME NEW i \in Int, NEW j \in Int, NEW k \in 0 .. (Fb + 3), -A < i, i < A, -A < j, j < A
      PROVE  i * 2^k + j \in Int /\ -Z < i * 2^k + j /\ i * 2^k + j < Z
  <2>1. PICK P \in Nat : P = 2^k /\ P > 0
    BY <1>1, <1>2, Powers
  <2>2. A * P = 2^((Fb + 1) + k) /\ 2 * (A * P) <= Z
    <3>1. Fb + 1 \in 0 .. MaxPlace /\ k \in 0 .. (MaxPlace - (Fb + 1))
      BY <1>1, <1>2
    <3>2. 2^((Fb + 1) + k) = 2^(Fb + 1) * 2^k
      BY <3>1, Powers, Zenon
    <3>3. PICK a, l \in Int : a = (Fb + 1) + k /\ l = MaxPlace - (a + 1) /\ (a + 1) + l = MaxPlace
                             /\ a \in 0 .. MaxPlace /\ a < MaxPlace /\ a + 1 \in 0 .. MaxPlace
                             /\ l \in 0 .. (MaxPlace - (a + 1))
      BY <1>1, <1>2
    <3>4. 2^(a + 1) <= 2^((a + 1) + l) /\ 2^(a + 1) = 2 * 2^a
      BY <3>3, Powers, Zenon
    <3>5. A * P = 2^a
      BY <1>3, <2>1, <3>2, <3>3, Zenon
    <3>6. 2 * (A * P) <= Z
      BY <1>4, <3>3, <3>4, <3>5, Zenon
    <3>7. QED
      BY <3>3, <3>5, <3>6, Zenon
  <2>3. i * P + P <= A * P /\ (-A) * P + P <= i * P /\ 1 * A <= P * A
    <3>1. i \in Int /\ A \in Int /\ -A \in Int /\ 1 \in Int /\ P \in Int /\ -A < i /\ i < A /\ 1 <= P
      BY <1>6, <2>1
    <3>2. QED
      BY ONLY <3>1, A \in Nat, P \in Nat, Scaled
  <2>4. PICK x1, y \in Int : x1 = i * P /\ y = A * P /\ (-A) * P = -y /\ P * A = y
    BY ONLY i \in Int, A \in Nat, P \in Nat
  <2>5. x1 + P <= y /\ -y + P <= x1 /\ A <= y /\ 2 * y <= Z
    BY <2>2, <2>3, <2>4
  <2>6. x1 + j \in Int /\ -Z < x1 + j /\ x1 + j < Z
    BY ONLY <1>6, <2>1, <2>5, x1 \in Int, y \in Int, j \in Int, A \in Nat, P \in Nat, Z \in Nat
  <2>7. i * 2^k + j = x1 + j
    BY <2>1, <2>4
  <2>8. QED
    BY <2>6, <2>7
<1>7. QED
  BY <1>2, <1>3, <1>4, <1>5, <1>6

\* A NaN is neither infinite nor zero.
LEMMA NaNOnly ==
  ASSUME NEW f \in Format, NEW w \in Pattern(f), isNaN(f, w)
  PROVE  ~isInf(f, w) /\ ~isZero(f, w)
<1>1. frac(f, w) # 0 /\ exp(f, w) = EMax(f) /\ frac(f, w) \in 0 .. (Unit(f) - 1)
  BY Parts DEF isNaN
<1>2. Magnitude(f, w) = Inf(f) + frac(f, w) /\ Inf(f) \in Nat /\ Unit(f) \in Nat
  BY <1>1, MagnitudeOrder, Fields
<1>3. QED
  BY <1>1, <1>2 DEF isInf, isZero

\* A product is a pattern, and the product with the sign of a factor changed is the
\* product with its sign changed.
LEMMA Products ==
  ASSUME NEW f \in Format, NEW a \in Pattern(f), NEW b \in Pattern(f), NEW p \in Times(f, a, b)
  PROVE  p \in Pattern(f) /\ (~isNaN(f, p) => Negative(f, p) \in Times(f, Negative(f, a), b))
<1> DEFINE m == mant(f, a) * mant(f, b)
           e == scale(f, a) + scale(f, b)
           c == Negative(f, a)
<1>1. /\ c \in Pattern(f) /\ sign(f, c) = 1 - sign(f, a)
      /\ mant(f, c) = mant(f, a) /\ scale(f, c) = scale(f, a)
      /\ isNaN(f, c) <=> isNaN(f, a)
      /\ isInf(f, c) <=> isInf(f, a)
      /\ isZero(f, c) <=> isZero(f, a)
  <2>1. c \in Pattern(f) /\ sign(f, c) = 1 - sign(f, a) /\ Magnitude(f, c) = Magnitude(f, a)
    BY Negated
  <2>2. QED
    BY <2>1, SameMagnitude, Zenon
<1>2. m \in Nat /\ m < 2^MaxPlace /\ e \in Int
  BY Mantissas, MantissaPlaces
<1>3. /\ SignOf(f, a, b) \in {0, 1} /\ SignOf(f, c, b) = 1 - SignOf(f, a, b)
  <2>1. sign(f, a) \in {0, 1} /\ sign(f, b) \in {0, 1}
    BY Parts
  <2>2. QED
    BY <1>1, <2>1 DEF SignOf
<1>4. PICK v \in 0 .. Inf(f) : \A s \in {0, 1} : Round(f, s, m, e) = Signum(f, s) + v
  BY <1>2, RoundParts
<1> DEFINE bad == (isInf(f, a) /\ isZero(f, b)) \/ (isZero(f, a) /\ isInf(f, b))
           nan == isNaN(f, a) \/ isNaN(f, b)
           inf == isInf(f, a) \/ isInf(f, b)
           t == SignOf(f, a, b)
<1>5. {} \in SUBSET Pattern(f) /\ {a, b} \in SUBSET Pattern(f)
  OBVIOUS
<1>6. nan => p \in NaNs(f, {a, b})
  <2>1. ~(isNaN(f, a) /\ isInf(f, a)) /\ ~(isNaN(f, a) /\ isZero(f, a))
        /\ ~(isNaN(f, b) /\ isInf(f, b)) /\ ~(isNaN(f, b) /\ isZero(f, b))
    BY NaNOnly
  <2>2. QED
    BY <2>1 DEF Times
<1>7. ~nan /\ bad => p \in NaNs(f, {})
  BY DEF Times
<1>8. ~nan /\ ~bad => p = IF inf THEN Signum(f, t) + Inf(f) ELSE Round(f, t, m, e)
  BY DEF Times
<1>9. ~nan /\ ~bad => Times(f, c, b) = {IF inf THEN Signum(f, 1 - t) + Inf(f) ELSE Round(f, 1 - t, m, e)}
  BY <1>1, <1>3 DEF Times
<1> HIDE DEF m, e, c, bad, nan, inf, t
<1>10. CASE nan \/ bad
  BY <1>5, <1>6, <1>7, <1>10, QuietNaNs
<1>11. CASE ~nan /\ ~bad
  <2>1. PICK u \in 0 .. Inf(f) : p = Signum(f, t) + u /\ Times(f, c, b) = {Signum(f, 1 - t) + u}
    <3>1. t \in {0, 1} /\ 1 - t \in {0, 1}
      BY <1>3 DEF t
    <3>2. Inf(f) \in 0 .. Inf(f)
      BY MagnitudeOrder
    <3>3. CASE inf
      BY <1>8, <1>9, <1>11, <3>2, <3>3, Zenon
    <3>4. CASE ~inf
      BY <1>4, <1>8, <1>9, <1>11, <3>1, <3>4, Zenon
    <3>5. QED
      BY <3>3, <3>4
  <2>2. t \in {0, 1}
    BY <1>3 DEF t
  <2>3. p \in Pattern(f)
    BY <2>1, <2>2, NotNaN
  <2>4. Negative(f, p) = Signum(f, 1 - t) + u
    BY <2>1, <2>2, <2>3, Negated
  <2>5. QED
    BY <2>1, <2>3, <2>4 DEF c
<1>12. QED
  BY <1>10, <1>11

\* A sum is a pattern, and one with a NaN is a NaN.
LEMMA Sums ==
  ASSUME NEW f \in Format, NEW a \in Pattern(f), NEW b \in Pattern(f), NEW v \in Plus(f, a, b)
  PROVE  v \in Pattern(f) /\ (isNaN(f, a) \/ isNaN(f, b) => isNaN(f, v))
<1> DEFINE hi == IF scale(f, a) >= scale(f, b) THEN a ELSE b
           lo == IF hi = a THEN b ELSE a
           gap == scale(f, hi) - scale(f, lo)
           far == gap > FracBits[f] + 3
           unit == IF isZero(f, lo) THEN 0 ELSE IF sign(f, lo) = 1 THEN -1 ELSE 1
           sum == IF far THEN 8 * SignedMant(f, hi) + unit
                  ELSE SignedMant(f, hi) * 2^gap + SignedMant(f, lo)
           e == IF far THEN scale(f, hi) - 3 ELSE scale(f, lo)
           r == IF sum = 0 THEN Signum(f, sign(f, a) * sign(f, b))
                ELSE IF sum < 0 THEN Round(f, 1, -sum, e) ELSE Round(f, 0, sum, e)
           nan == isNaN(f, a) \/ isNaN(f, b)
<1>1. {} \in SUBSET Pattern(f) /\ {a, b} \in SUBSET Pattern(f)
  OBVIOUS
<1>2. nan => v \in NaNs(f, {a, b})
  <2>1. (isNaN(f, a) => ~isInf(f, a)) /\ (isNaN(f, b) => ~isInf(f, b))
    BY NaNOnly
  <2>2. QED
    BY <2>1, Zenon DEF Plus
<1>3. ~nan => v \in NaNs(f, {}) \/ v = a \/ v = b \/ v = r
  BY Zenon DEF Plus
<1>4. scale(f, a) \in Int /\ scale(f, b) \in Int
  BY Mantissas
<1>5. hi \in Pattern(f) /\ lo \in Pattern(f) /\ gap \in Int /\ gap >= 0
  BY <1>4
<1> HIDE DEF hi, lo
<1>6. /\ SignedMant(f, hi) \in Int /\ SignedMant(f, lo) \in Int /\ scale(f, lo) \in Int /\ scale(f, hi) \in Int
      /\ -(2 * Unit(f)) < SignedMant(f, hi) /\ SignedMant(f, hi) < 2 * Unit(f)
      /\ -(2 * Unit(f)) < SignedMant(f, lo) /\ SignedMant(f, lo) < 2 * Unit(f)
  BY <1>5, Mantissas
<1> HIDE DEF gap
<1>7. e \in Int
  BY <1>6
<1>8. sum \in Int /\ -(2^MaxPlace) < sum /\ sum < 2^MaxPlace
  <2>1. CASE ~far
    <3>1. gap \in 0 .. (FracBits[f] + 3)
      BY <1>5, <2>1, Places
    <3>2. QED
      BY <1>6, <2>1, <3>1, MantissaPlaces
  <2>2. CASE far
    <3>1. unit \in Int /\ -(2 * Unit(f)) < unit /\ unit < 2 * Unit(f)
      BY Fields
    <3>2. PICK k \in Int : k = 3 /\ 2^k = 8
      <4>1. 2^3 = 8 /\ 3 \in Int
        OBVIOUS
      <4>2. QED
        BY <4>1, Zenon
    <3>3. k \in 0 .. (FracBits[f] + 3)
      BY <3>2, Places
    <3> HIDE DEF unit
    <3>4. /\ SignedMant(f, hi) * 2^k + unit \in Int
          /\ -(2^MaxPlace) < SignedMant(f, hi) * 2^k + unit
          /\ SignedMant(f, hi) * 2^k + unit < 2^MaxPlace
      BY <1>6, <3>1, <3>3, MantissaPlaces
    <3>5. sum = SignedMant(f, hi) * 2^k + unit
      BY <1>6, <2>2, <3>2
    <3>6. QED
      BY <3>4, <3>5
  <2>3. QED
    BY <2>1, <2>2
<1> HIDE DEF sum, e
<1>9. r \in Pattern(f)
  <2>1. sign(f, a) * sign(f, b) \in {0, 1}
    <3>1. sign(f, a) \in {0, 1} /\ sign(f, b) \in {0, 1}
      BY Parts
    <3>2. QED
      BY <3>1
  <2>2. CASE sum = 0
    <3>1. 0 \in 0 .. Inf(f) /\ \A s \in {0, 1} : Signum(f, s) + 0 = Signum(f, s)
      BY MagnitudeOrder, Fields DEF Signum, Top
    <3>2. QED
      BY <2>1, <2>2, <3>1, NotNaN
  <2>3. ASSUME NEW m \in Nat, m < 2^MaxPlace, NEW s \in {0, 1} PROVE Round(f, s, m, e) \in Pattern(f)
    <3>1. PICK u \in 0 .. Inf(f) : Round(f, s, m, e) = Signum(f, s) + u
      BY <1>7, <2>3, RoundParts
    <3>2. QED
      BY <3>1, NotNaN
  <2>4. 2^MaxPlace \in Int
    BY Places, Powers
  <2>5. CASE sum < 0
    <3>1. -sum \in Nat /\ -sum < 2^MaxPlace
      BY <1>8, <2>4, <2>5
    <3>2. QED
      BY <1>8, <2>3, <2>5, <3>1
  <2>6. CASE sum > 0
    BY <1>8, <2>3, <2>4, <2>6
  <2>7. QED
    BY <1>8, <2>2, <2>5, <2>6
<1> HIDE DEF r, nan
<1>10. CASE nan
  BY <1>1, <1>2, <1>10, QuietNaNs DEF nan
<1>11. CASE ~nan
  BY <1>1, <1>3, <1>9, <1>11, QuietNaNs DEF nan
<1>12. QED
  BY <1>10, <1>11

\* So is a difference.
LEMMA Differences ==
  ASSUME NEW f \in Format, NEW a \in Pattern(f), NEW b \in Pattern(f), NEW v \in Minus(f, a, b)
  PROVE  /\ v \in Pattern(f) /\ (isNaN(f, a) \/ isNaN(f, b) => isNaN(f, v))
         /\ ~isNaN(f, v) => v \in Plus(f, a, Negative(f, b))
<1>1. CASE isNaN(f, b)
  <2>1. v \in NaNs(f, {a, b}) /\ {a, b} \in SUBSET Pattern(f)
    BY <1>1 DEF Minus
  <2>2. QED
    BY <2>1, QuietNaNs
<1>2. CASE ~isNaN(f, b)
  <2>1. v \in Plus(f, a, Negative(f, b)) /\ Negative(f, b) \in Pattern(f)
    BY <1>2, Negated DEF Minus
  <2>2. QED
    BY <1>2, <2>1, Sums
<1>3. QED
  BY <1>1, <1>2

\* The four multiply-add handlers differ from fmadd in the signs of rs1 and rs3 only, for
\* every width of the formats and all operands.
THEOREM MulAddSigns == FloatSpec => []MulAddSigned
<1>1. FloatInv => MulAddSigned
  <2>1. SUFFICES ASSUME FloatInv, NEW f \in Format, NEW o \in {"fmsub", "fnmsub", "fnmadd"}, Done(o, f),
                        ~isNaN(f, Result(f))
                 PROVE  LET a == Operand(f, 1)
                            b == Operand(f, 2)
                            c == Operand(f, 3)
                        IN  /\ o = "fmsub" => Result(f) \in muladd(f, "fmadd", a, b, Negative(f, c))
                            /\ o = "fnmsub" => Result(f) \in muladd(f, "fmadd", Negative(f, a), b, c)
                            /\ o = "fnmadd" =>
                                 Result(f) \in muladd(f, "fmadd", Negative(f, a), b, Negative(f, c))
    BY DEF MulAddSigned
  <2>2. PICK a \in Pattern(f), b \in Pattern(f), c \in Pattern(f) :
          a = Operand(f, 1) /\ b = Operand(f, 2) /\ c = Operand(f, 3)
    BY <2>1, Operands
  <2>3. PICK v \in muladd(f, o, a, b, c) : fd = Put(f, v)
    BY <2>1, <2>2, DoneRan DEF Ran, MulAddOps
  <2>4. PICK p \in Times(f, a, b) :
          /\ o = "fmsub" => v \in Minus(f, p, c)
          /\ o = "fnmsub" => v \in Plus(f, Negative(f, p), c)
          /\ o = "fnmadd" => v \in Minus(f, Negative(f, p), c)
    BY <2>1, <2>3 DEF muladd
  <2>5. /\ p \in Pattern(f) /\ Negative(f, p) \in Pattern(f) /\ (isNaN(f, p) => isNaN(f, Negative(f, p)))
        /\ ~isNaN(f, p) => Negative(f, p) \in Times(f, Negative(f, a), b)
    <3>1. /\ p \in Pattern(f) /\ Negative(f, p) \in Pattern(f) /\ Magnitude(f, Negative(f, p)) = Magnitude(f, p)
          /\ ~isNaN(f, p) => Negative(f, p) \in Times(f, Negative(f, a), b)
      BY Products, Negated
    <3>2. QED
      BY <3>1, SameMagnitude
  <2>6. v \in Pattern(f)
    BY <2>1, <2>4, <2>5, Sums, Differences
  <2>7. Result(f) = v
    BY <2>3, <2>6, Members DEF Result
  <2>8. ~isNaN(f, v)
    BY <2>1, <2>7
  <2>9. ASSUME NEW x1 \in Pattern(f), NEW y \in Pattern(f), NEW z \in Times(f, x1, b), v \in Plus(f, z, y)
        PROVE  v \in muladd(f, "fmadd", x1, b, y)
    BY <2>9 DEF muladd
  <2>10. Negative(f, a) \in Pattern(f) /\ Negative(f, c) \in Pattern(f)
    BY Negated
  <2>11. CASE o = "fmsub"
    <3>1. v \in Plus(f, p, Negative(f, c))
      BY <2>4, <2>5, <2>8, <2>11, Differences
    <3>2. v \in muladd(f, "fmadd", a, b, Negative(f, c))
      BY <2>9, <2>10, <3>1
    <3>3. QED
      BY <2>2, <2>7, <2>11, <3>2
  <2>12. CASE o = "fnmsub"
    <3>1. v \in Plus(f, Negative(f, p), c) /\ ~isNaN(f, p)
      BY <2>4, <2>5, <2>8, <2>12, Sums
    <3>2. v \in muladd(f, "fmadd", Negative(f, a), b, c)
      BY <2>5, <2>9, <2>10, <3>1
    <3>3. QED
      BY <2>2, <2>7, <2>12, <3>2
  <2>13. CASE o = "fnmadd"
    <3>1. v \in Plus(f, Negative(f, p), Negative(f, c)) /\ ~isNaN(f, p)
      BY <2>4, <2>5, <2>8, <2>13, Differences
    <3>2. v \in muladd(f, "fmadd", Negative(f, a), b, Negative(f, c))
      BY <2>5, <2>9, <2>10, <3>1
    <3>3. QED
      BY <2>2, <2>7, <2>13, <3>2
  <2>14. QED
    BY <2>11, <2>12, <2>13
<1>2. QED
  BY <1>1, FloatInvariant, PTL

-----------------------------------------------------------------------------
(* Conversions to an integer.                                              *)

\* The casts between int32_t, uint32_t and 64-bit words.
LEMMA Casts ==
  /\ \A l \in Int : LET x1 == Wrap(int32(l)) IN x1 \in Int /\ x1 = Wrap(int32(x1))
  /\ \A l \in (-(2^(WLen - 1))) .. (2^(WLen - 1) - 1) : Signed(Wrap(int32(l))) = l
  /\ \A l \in 0 .. (2^WLen - 1) : uint32(Wrap(int32(l))) = l
  /\ \A l \in (INT64_MIN + 1) .. (-INT64_MIN - 1) : Signed(Wrap(l)) = l
  /\ \A l \in 0 .. (-INT64_MIN - 1) : Wrap(l) = l
  /\ INT64_MIN \in Int /\ INT64_MIN < -(2^(WLen - 1)) /\ 2^WLen <= -INT64_MIN /\ 2^(WLen - 1) \in Nat
  /\ Wrap(INT64_MIN) = AddrSpace \div 2
<1>1. PICK H \in Nat, P \in Nat, A \in Nat :
        /\ H = 2^(WLen - 1) /\ P = 2^WLen /\ A = AddrSpace /\ P = 2 * H /\ A = P * P /\ H > 1 /\ P > 0
  <2>1. WLen \in 0 .. MaxPlace /\ WLen > 2 /\ WLen \in 0 .. (MaxPlace - WLen) /\ XLen = WLen + WLen
        /\ WLen - 1 \in 0 .. MaxPlace
    <3>1. "s" \in Format /\ "d" \in Format
      BY DEF Format
    <3>2. /\ MaxPlace = XLen + FracBits["d"] + 2 /\ FracBits["d"] \in Nat /\ XLen = 2 * WLen /\ WLen \in Nat
          /\ FracBits["d"] > 1 /\ ExpBits["d"] \in Nat /\ ExpBits["d"] > 3
          /\ 1 + ExpBits["d"] + FracBits["d"] <= XLen
      BY <3>1, Places
    <3>3. QED
      BY <3>2
  <2>2. /\ 2^WLen = 2 * 2^(WLen - 1) /\ 2^(WLen - 1) \in Nat /\ 2^WLen \in Nat
        /\ 2^(WLen + WLen) = 2^WLen * 2^WLen /\ 2^WLen > WLen
    BY <2>1, Powers
  <2>3. AddrSpace = 2^(WLen + WLen)
    BY <2>1, IeeeAssumption
  <2>4. AddrSpace \in Nat
    BY WordAssumption
  <2>5. 2^(WLen - 1) > 1
    BY <2>1, <2>2
  <2>6. QED
    BY <2>2, <2>3, <2>4, <2>5
<1>2. A = 2 * (P * H) /\ P * H \in Nat /\ 2 * P <= P * H
  <2>1. P * P = 2 * (P * H)
    BY ONLY <1>1, P \in Nat, H \in Nat
  <2>2. 2 * P <= H * P
    <3>1. 2 \in Int /\ H \in Int /\ 2 <= H
      BY <1>1
    <3>2. QED
      BY ONLY <3>1, P \in Nat, Scaled
  <2>3. H * P = P * H /\ P * H \in Nat
    BY Scaled
  <2>4. QED
    BY <1>1, <2>1, <2>2, <2>3
<1>3. PICK Bs \in Nat : A = 2 * Bs /\ INT64_MIN = -Bs /\ 2 * P <= Bs
  <2>1. PICK Bs \in Nat : Bs = P * H
    BY <1>2
  <2>2. A = 2 * Bs /\ A \div 2 = Bs /\ 2 * P <= Bs
    BY <1>2, <2>1
  <2>3. QED
    BY <1>1, <2>2 DEF INT64_MIN
<1>4. ASSUME NEW l \in Int
      PROVE  /\ uint32(l) = l % P /\ l % P \in 0 .. (P - 1) /\ int32(l) \in (-H) .. (H - 1)
             /\ int32(l) = IF 2 * (l % P) < P THEN l % P ELSE (l % P) - P
  <2>1. uint32(l) = l % P /\ l % P \in 0 .. (P - 1)
    BY <1>1 DEF uint32
  <2>2. int32(l) = IF 2 * (l % P) < P THEN l % P ELSE (l % P) - P
    BY <1>1, <2>1 DEF int32
  <2>3. QED
    BY <1>1, <2>1, <2>2
<1>5. ASSUME NEW l \in (-Bs) .. (Bs - 1)
      PROVE  Wrap(l) = (IF l < 0 THEN l + A ELSE l) /\ Signed(Wrap(l)) = l
  <2>1. PICK r \in Int : r = (IF l < 0 THEN l + A ELSE l) /\ 0 <= r /\ r < A
    BY <1>3
  <2>2. l % A = r
    <3>1. CASE l < 0
      <4>1. l = (-1) * A + r
        BY <2>1, <3>1
      <4>2. -1 \in Int /\ A > 0
        BY <2>1
      <4>3. QED
        BY <2>1, <4>1, <4>2, DivMod
    <3>2. CASE ~(l < 0)
      BY <2>1, <3>2
    <3>3. QED
      BY <3>1, <3>2
  <2>3. QED
    <3>1. Wrap(l) = r
      BY <1>1, <2>2 DEF Wrap
    <3>2. Signed(r) = IF 2 * r < A THEN r ELSE r - A
      BY <1>1 DEF Signed
    <3>3. 2 * r < A <=> l >= 0
      BY <1>3, <2>1
    <3>4. QED
      BY <2>1, <3>1, <3>2, <3>3
<1>6. ASSUME NEW l \in Int, NEW x1 \in Int, NEW k \in Int, x1 = k * P + l
      PROVE  x1 % P = l % P /\ int32(x1) = int32(l)
  <2>1. PICK q, r \in Int : l = q * P + r /\ 0 <= r /\ r < P /\ l % P = r
    <3>1. P > 0
      BY <1>1
    <3>2. QED
      BY <3>1, DivModOf
  <2>2. PICK j \in Int : j = k + q
    OBVIOUS
  <2>3. x1 = j * P + r
    <3>1. x1 = k * P + (q * P + r)
      BY <1>6, <2>1
    <3>2. k * P + (q * P + r) = (k + q) * P + r
      BY ONLY k \in Int, q \in Int, r \in Int, P \in Nat
    <3>3. QED
      BY <2>2, <3>1, <3>2
  <2>4. x1 % P = r
    <3>1. P > 0 /\ 0 <= r /\ r < P
      BY <1>1, <2>1, Zenon
    <3>2. (j * P + r) % P = r
      BY ONLY <3>1, P \in Nat, j \in Int, r \in Int, DivMod
    <3>3. QED
      BY <2>3, <3>2, Zenon
  <2>5. QED
    BY <1>4, <2>1, <2>4
<1>7. ASSUME NEW i \in (-H) .. (H - 1)
      PROVE  /\ int32(i) = i /\ Wrap(i) \in Int /\ Signed(Wrap(i)) = i
             /\ int32(Wrap(i)) = i /\ Wrap(i) % P = i % P
  <2>1. i % P = IF i < 0 THEN i + P ELSE i
    <3>1. CASE i < 0
      <4>1. i = (-1) * P + (i + P) /\ -1 \in Int /\ 0 <= i + P /\ i + P < P /\ P > 0 /\ i + P \in Int
        BY <1>1, <3>1
      <4>2. QED
        BY <3>1, <4>1, DivMod
    <3>2. CASE ~(i < 0)
      BY <1>1, <3>2
    <3>3. QED
      BY <3>1, <3>2
  <2>2. int32(i) = i
    <3>1. int32(i) = IF 2 * (i % P) < P THEN i % P ELSE (i % P) - P
      BY <1>4
    <3>2. P = 2 * H
      BY <1>1
    <3>3. QED
      BY <2>1, <3>1, <3>2
  <2>3. i \in (-Bs) .. (Bs - 1)
    BY <1>1, <1>3
  <2>4. Wrap(i) = (IF i < 0 THEN i + A ELSE i) /\ Signed(Wrap(i)) = i
    BY <1>5, <2>3
  <2>5. PICK k \in Int : Wrap(i) = k * P + i
    <3>1. CASE i < 0
      BY <1>1, <2>4, <3>1
    <3>2. CASE ~(i < 0)
      <4>1. Wrap(i) = 0 * P + i /\ 0 \in Int
        BY <2>4, <3>2
      <4>2. QED
        BY <4>1
    <3>3. QED
      BY <3>1, <3>2
  <2>6. Wrap(i) \in Int
    BY <2>4
  <2>7. int32(Wrap(i)) = int32(i) /\ Wrap(i) % P = i % P
    <3>1. i \in Int
      OBVIOUS
    <3>2. QED
      BY <1>6, <2>5, <2>6, <3>1, Zenon
  <2>8. QED
    BY <2>2, <2>4, <2>6, <2>7, Zenon
<1>8. \A l \in Int : LET x1 == Wrap(int32(l)) IN x1 \in Int /\ x1 = Wrap(int32(x1))
  <2>1. SUFFICES ASSUME NEW l \in Int PROVE Wrap(int32(l)) \in Int /\ Wrap(int32(l)) = Wrap(int32(Wrap(int32(l))))
    BY Zenon
  <2>2. int32(l) \in (-H) .. (H - 1)
    BY <1>4
  <2>3. QED
    BY <1>7, <2>2
<1>9. ASSUME NEW l \in 0 .. (P - 1) PROVE uint32(Wrap(int32(l))) = l
  <2>1. int32(l) \in (-H) .. (H - 1) /\ l % P = l /\ int32(l) = IF 2 * l < P THEN l ELSE l - P
    <3>1. l % P = l /\ l \in Int
      BY <1>1
    <3>2. QED
      BY <1>4, <3>1
  <2>2. Wrap(int32(l)) \in Int /\ Wrap(int32(l)) % P = int32(l) % P
    BY <1>7, <2>1
  <2>3. int32(l) % P = l
    <3>1. CASE 2 * l < P
      BY <2>1, <3>1
    <3>2. CASE ~(2 * l < P)
      <4>1. l - P = (-1) * P + l /\ -1 \in Int /\ 0 <= l /\ l < P /\ P > 0
        BY <1>1
      <4>2. QED
        BY <2>1, <3>2, <4>1, DivMod
    <3>3. QED
      BY <3>1, <3>2
  <2>4. QED
    BY <1>4, <2>2, <2>3
<1>10. \A l \in (-H) .. (H - 1) : Signed(Wrap(int32(l))) = l
  BY <1>7
<1>11. \A l \in (-Bs + 1) .. (Bs - 1) : Signed(Wrap(l)) = l /\ (l >= 0 => Wrap(l) = l)
  BY <1>5
<1>12. -Bs < -H /\ P <= Bs
  BY <1>1, <1>3
<1>13. Wrap(-Bs) = AddrSpace \div 2
  <2>1. Bs > 0 /\ -Bs \in (-Bs) .. (Bs - 1) /\ -Bs < 0
    BY <1>1, <1>3
  <2>2. Wrap(-Bs) = -Bs + A
    BY <1>5, <2>1
  <2>3. A \div 2 = Bs /\ -Bs + A = Bs
    BY <1>3
  <2>4. QED
    BY <1>1, <2>2, <2>3
<1>14. QED
  BY <1>1, <1>3, <1>8, <1>9, <1>10, <1>11, <1>12, <1>13

\* llrint rounds to nearest even wherever its result is not INT64_MIN.
LEMMA NearestInt ==
  ASSUME NEW f \in Format, NEW w \in Pattern(f), ~isNaN(f, w), ~isInf(f, w), llrint(f, w) # INT64_MIN
  PROVE  llrint(f, w) \in Int /\ IsNearestInt(f, w, llrint(f, w))
<1>1. PICK m \in Nat, e \in Int, Fb \in Nat :
        /\ m = mant(f, w) /\ e = scale(f, w) /\ Fb = FracBits[f] /\ m < 2^(Fb + 1)
        /\ Fb + 1 \in 0 .. MaxPlace /\ Fb + 5 <= MaxPlace
  <2>1. /\ FracBits[f] \in Nat /\ 2 * FracBits[f] + 5 <= MaxPlace /\ MaxPlace \in Nat
    BY Places
  <2>2. PICK Fb \in Nat : Fb = FracBits[f] /\ Fb \in 0 .. MaxPlace /\ Fb + 1 \in 0 .. MaxPlace /\ Fb + 5 <= MaxPlace
                         /\ Fb < MaxPlace
    BY <2>1
  <2>3. 2^(Fb + 1) = 2 * 2^Fb
    BY <2>2, Powers, Zenon
  <2>4. 2^(Fb + 1) = 2 * Unit(f)
    BY <2>2, <2>3, Zenon DEF Unit
  <2>5. QED
    BY <2>2, <2>4, Mantissas
<1>2. exp(f, w) # EMax(f)
  <2>1. exp(f, w) = EMax(f) /\ frac(f, w) = 0 => Magnitude(f, w) = Inf(f)
    BY MagnitudeOrder
  <2>2. QED
    BY <2>1 DEF isNaN, isInf
<1>3. PICK g \in {0, 1} : g = sign(f, w)
  BY Parts
<1>4. SignedMant(f, w) = IF g = 1 THEN -m ELSE m
  BY <1>1, <1>3 DEF SignedMant
<1>5. ASSUME NEW n
      PROVE  IsNearestInt(f, w, n) <=>
               LET z == IF g = 1 THEN -m ELSE m
                   d == n * 2^(-e) - z
               IN  IF e >= 0 THEN n = z * 2^e
                   ELSE IF -e > Fb + 2 THEN n = 0
                   ELSE /\ 2 * d <= 2^(-e) /\ -2 * d <= 2^(-e)
                        /\ 2 * d \in {2^(-e), -(2^(-e))} => n % 2 = 0
  BY <1>1, <1>4, Zenon DEF IsNearestInt
<1>6. CASE isZero(f, w)
  <2>1. llrint(f, w) = 0
    BY <1>6 DEF llrint
  <2>2. exp(f, w) = 0
    BY <1>6, MagnitudeOrder DEF isZero
  <2>3. e = scaleMin(f) + 0
    BY <1>1, <2>2, Zenon DEF scale
  <2>4. e < 0 /\ -e > Fb + 2
    <3>1. PICK Bs \in Nat : Bs = 2^(ExpBits[f] - 1) /\ Bs > XLen /\ scaleMin(f) = 2 - Bs - Fb
      BY <1>1, Scales
    <3>2. 1 + ExpBits[f] + Fb <= XLen /\ ExpBits[f] > 3 /\ XLen \in Nat /\ ExpBits[f] \in Nat /\ Fb > 1
      BY <1>1, Places
    <3>3. QED
      BY <2>3, <3>1, <3>2
  <2>5. QED
    BY <1>5, <2>1, <2>4
<1>7. CASE ~isZero(f, w)
  <2>1. m > 0
    <3>1. /\ frac(f, w) # 0 \/ exp(f, w) # 0
          /\ frac(f, w) \in 0 .. (Unit(f) - 1) /\ Unit(f) \in Nat /\ Unit(f) > 0
      BY <1>7, MagnitudeOrder, Parts, Fields DEF isZero
    <3>2. mant(f, w) = IF exp(f, w) = 0 THEN frac(f, w) ELSE Unit(f) + frac(f, w)
      BY Zenon DEF mant, Unit
    <3>3. QED
      BY <1>1, <3>1, <3>2
  <2>2. PICK L \in 0 .. Fb : L = Log2(m) /\ 2^L <= m /\ m < 2^(L + 1)
    <3>1. Log2(m) \in 0 .. ((Fb + 1) - 1) /\ 2^Log2(m) <= m /\ m < 2^(Log2(m) + 1)
      BY <1>1, <2>1, LeadingOne
    <3>2. QED
      BY <3>1
  <2>3. PICK n : n = IF e >= 0 THEN m * 2^e ELSE IF -e > L + 1 THEN 0 ELSE RoundShift(m, -e)
    OBVIOUS
  <2>4. llrint(f, w) = IF exp(f, w) = EMax(f) \/ L + e >= XLen - 1 THEN INT64_MIN
                       ELSE IF n = -INT64_MIN THEN INT64_MIN
                       ELSE IF sign(f, w) = 1 THEN -n ELSE n
    BY <1>1, <1>7, <2>2, <2>3, Zenon DEF llrint
  <2>5. L + e < XLen - 1 /\ llrint(f, w) = IF g = 1 THEN -n ELSE n
    <3>1. ~(L + e >= XLen - 1) /\ llrint(f, w) = IF g = 1 THEN -n ELSE n
      BY <1>2, <1>3, <2>4, Zenon
    <3>2. XLen \in Nat
      BY Places
    <3>3. QED
      BY <3>1, <3>2
  <2>6. CASE e >= 0
    <3>1. e \in 0 .. MaxPlace
      <4>1. MaxPlace = XLen + FracBits["d"] + 2 /\ XLen \in Nat /\ FracBits["d"] \in Nat
        BY Places DEF Format
      <4>2. QED
        BY <2>5, <2>6, <4>1
    <3>2. PICK P \in Nat : P = 2^e
      BY <3>1, Powers
    <3>3. n = m * P /\ m * P \in Int /\ (-m) * P = -(m * P)
      BY <2>3, <2>6, <3>2
    <3>4. llrint(f, w) = (IF g = 1 THEN -m ELSE m) * P /\ llrint(f, w) \in Int
      BY <2>5, <3>3
    <3>5. QED
      BY <1>5, <2>6, <3>2, <3>4
  <2>7. CASE e < 0
    <3>1. CASE -e > Fb + 2
      <4>1. n = 0
        BY <2>2, <2>3, <2>7, <3>1
      <4>2. llrint(f, w) = 0
        <5>1. llrint(f, w) = IF g = 1 THEN -n ELSE n
          BY <2>5
        <5>2. 0 \in Int /\ \A j \in Int : j = 0 => -j = 0
          OBVIOUS
        <5>3. QED
          BY <4>1, <5>1, <5>2, Zenon
      <4>3. QED
        BY <1>5, <2>7, <3>1, <4>2
    <3>2. CASE ~(-e > Fb + 2)
      <4>1. PICK k \in 0 .. MaxPlace : k = -e /\ k > 0
        <5>1. MaxPlace \in Nat
          BY Places
        <5>2. Fb + 5 <= MaxPlace
          BY <1>1
        <5>3. QED
          BY <2>7, <3>2, <5>1, <5>2
      <4>2. PICK P \in Nat : P = 2^k /\ P > 0
        BY Powers
      <4>3. PICK i \in Int : /\ n \in Int /\ i = n * P - m
                             /\ 2 * i <= P /\ -2 * i <= P
                             /\ 2 * i \in {P, -P} => n % 2 = 0
        <5>1. CASE k > L + 1
          <6>1. n = 0
            BY <2>3, <2>7, <4>1, <5>1
          <6>2. L + 1 \in 0 .. MaxPlace /\ L + 1 < MaxPlace /\ (L + 1) + 1 \in 0 .. MaxPlace
                /\ k - ((L + 1) + 1) \in 0 .. (MaxPlace - ((L + 1) + 1))
                /\ ((L + 1) + 1) + (k - ((L + 1) + 1)) = k
            BY <1>1, <4>1, <5>1, Places
          <6>3. 2^((L + 1) + 1) = 2 * 2^(L + 1) /\ 2^(L + 1) \in Nat
            BY <6>2, Powers, Zenon
          <6>4. 2^((L + 1) + 1) <= 2^(((L + 1) + 1) + (k - ((L + 1) + 1)))
            BY <6>2, Powers, Zenon
          <6>5. 2^((L + 1) + 1) <= P
            BY <4>2, <6>2, <6>4, Zenon
          <6>6. 2 * m < P
            BY <2>2, <6>3, <6>5
          <6>7. PICK i \in Int : i = -m
            OBVIOUS
          <6>8. n * P - m = i
            BY <4>2, <6>1, <6>7
          <6>9. 2 * i <= P /\ -2 * i <= P /\ 2 * i # P /\ 2 * i # -P
            BY <4>2, <6>6, <6>7
          <6>10. QED
            BY <6>1, <6>8, <6>9
        <5>2. CASE ~(k > L + 1)
          <6>1. PICK q \in Nat, r \in Nat :
                  /\ m = q * P + r /\ r < P
                  /\ RoundShift(m, k) = IF 2 * r > P \/ (2 * r = P /\ q % 2 = 1) THEN q + 1 ELSE q
            BY <4>2, Shifted
          <6>2. n = RoundShift(m, k)
            BY <2>3, <2>7, <4>1, <5>2
          <6>3. CASE 2 * r > P \/ (2 * r = P /\ q % 2 = 1)
            <7>1. n = q + 1
              BY <6>1, <6>2, <6>3
            <7>2. (q + 1) * P = q * P + P
              OBVIOUS
            <7>3. PICK j \in Int : j = q * P
              OBVIOUS
            <7>4. n * P - m = P - r
              BY <6>1, <7>1, <7>2, <7>3
            <7>5. PICK i \in Int : i = P - r
              OBVIOUS
            <7>6. 2 * i <= P /\ -2 * i <= P /\ (2 * i \in {P, -P} => n % 2 = 0) /\ n \in Int
              BY <6>1, <6>3, <7>1, <7>5
            <7>7. QED
              BY <7>4, <7>5, <7>6
          <6>4. CASE ~(2 * r > P \/ (2 * r = P /\ q % 2 = 1))
            <7>1. n = q
              BY <6>1, <6>2, <6>4
            <7>2. PICK j \in Int : j = q * P
              OBVIOUS
            <7>3. n * P - m = -r
              BY <6>1, <7>1, <7>2
            <7>4. PICK i \in Int : i = -r
              OBVIOUS
            <7>5. 2 * i <= P /\ -2 * i <= P /\ (2 * i \in {P, -P} => n % 2 = 0) /\ n \in Int
              BY <4>2, <6>1, <6>4, <7>1, <7>4
            <7>6. QED
              BY <7>3, <7>4, <7>5
          <6>5. QED
            BY <6>3, <6>4
        <5>3. QED
          BY <5>1, <5>2
      <4>4. PICK l \in Int : l = (IF g = 1 THEN -n ELSE n) /\ llrint(f, w) = l
        BY <2>5, <4>3
      <4>5. PICK d \in Int : /\ d = l * P - (IF g = 1 THEN -m ELSE m)
                             /\ d = IF g = 1 THEN -i ELSE i
        <5>1. (-n) * P - (-m) = -(n * P - m)
          BY <4>3
        <5>2. CASE g = 1
          BY <4>3, <4>4, <5>1, <5>2
        <5>3. CASE g # 1
          BY <4>3, <4>4, <5>3
        <5>4. QED
          BY <5>2, <5>3
      <4>6. n % 2 = 0 => l % 2 = 0
        BY <4>3, <4>4
      <4>7. 2 * d <= P /\ -2 * d <= P /\ (2 * d \in {P, -P} => l % 2 = 0)
        BY <4>2, <4>3, <4>5, <4>6
      <4>8. ~(e >= 0) /\ 2^(-e) = P
        BY <2>7, <4>1, <4>2
      <4>9. QED
        BY <1>5, <3>2, <4>4, <4>5, <4>7, <4>8, Zenon
    <3>3. QED
      BY <3>1, <3>2
  <2>8. QED
    BY <2>6, <2>7
<1>8. QED
  BY <1>6, <1>7

-----------------------------------------------------------------------------
(* Conversions from an integer.                                            *)

\* The exponent and the fraction of a magnitude.
LEMMA ExpFrac ==
  ASSUME NEW f \in Format, NEW w \in Pattern(f), NEW i \in Int, NEW j \in 0 .. (Unit(f) - 1),
         Magnitude(f, w) = i * Unit(f) + j
  PROVE  exp(f, w) = i /\ frac(f, w) = j
<1>1. PICK U \in Nat : U = Unit(f) /\ U > 0
  BY Fields
<1>2. PICK e, r \in Int : e = exp(f, w) /\ r = frac(f, w) /\ 0 <= r /\ r < U /\ Magnitude(f, w) = e * U + r
  <2>1. exp(f, w) \in 0 .. EMax(f) /\ frac(f, w) \in 0 .. (Unit(f) - 1)
        /\ Magnitude(f, w) = exp(f, w) * Unit(f) + frac(f, w)
    BY Parts
  <2>2. QED
    BY <1>1, <2>1, Fields
<1>3. (e * U + r) % U = r /\ (e * U + r) \div U = e
  BY <1>1, <1>2, DivMod
<1>4. (i * U + j) % U = j /\ (i * U + j) \div U = i
  <2>1. j \in Int /\ 0 <= j /\ j < U
    BY <1>1
  <2>2. QED
    BY <1>1, <2>1, DivMod
<1>5. e * U + r = i * U + j
  BY <1>1, <1>2
<1>6. e = i /\ r = j
  BY <1>3, <1>4, <1>5, Zenon
<1>7. QED
  BY <1>2, <1>6

\* In the units of IsNearestTo: the weight of the last bit of a significand that
\* has its leading one at place l.
Ulp(f, l) == 2^(l - FracBits[f] + FracBits["d"] + 1)

\* A bias, and what it and the widths leave.
LEMMA Bias ==
  ASSUME NEW f \in Format
  PROVE  \E Bs, U, Fb, D \in Nat :
           /\ Bs = 2^(ExpBits[f] - 1) /\ U = Unit(f) /\ Fb = FracBits[f] /\ D = FracBits["d"]
           /\ Bs > XLen /\ Bs > 7 /\ EMax(f) = 2 * Bs - 1 /\ scaleMin(f) = 2 - Bs - Fb
           /\ U > 3 /\ U % 2 = 0 /\ Fb <= D /\ Fb > 1 /\ MaxPlace = XLen + D + 2 /\ XLen \in Nat
           /\ Inf(f) = EMax(f) * U /\ Inf(f) + U = Top(f) /\ Top(f) \in Nat /\ Inf(f) \in Nat
<1>1. "d" \in Format /\ 0 \in Pattern(f)
  BY Fields DEF Format, Pattern
<1>2. /\ FracBits[f] \in Nat /\ FracBits["d"] \in Nat /\ FracBits[f] <= FracBits["d"] /\ FracBits[f] > 1
      /\ MaxPlace = XLen + FracBits["d"] + 2 /\ XLen \in Nat /\ ExpBits[f] > 3 /\ ExpBits[f] \in Nat
      /\ 1 + ExpBits[f] + FracBits[f] <= XLen
  BY <1>1, Places
<1>3. PICK Bs \in Nat : Bs = 2^(ExpBits[f] - 1) /\ Bs > XLen /\ EMax(f) = 2 * Bs - 1
                       /\ scaleMin(f) = 2 - Bs - FracBits[f]
  BY Scales
<1>4. PICK U \in Nat, Q \in Nat : U = Unit(f) /\ U = 2 * Q /\ Top(f) \in Nat
  BY Fields
<1>5. U > 3
  <2>1. FracBits[f] \in 0 .. MaxPlace /\ FracBits[f] - 1 \in 0 .. MaxPlace /\ FracBits[f] > 0
    BY <1>2
  <2>2. 2^FracBits[f] = 2 * 2^(FracBits[f] - 1) /\ 2^(FracBits[f] - 1) \in Nat
        /\ 2^(FracBits[f] - 1) > FracBits[f] - 1
    BY <2>1, Powers
  <2>3. QED
    BY <1>2, <1>4, <2>2 DEF Unit
<1>6. Inf(f) = EMax(f) * U /\ Inf(f) + U = Top(f) /\ Inf(f) \in Nat
  BY <1>1, <1>4, MagnitudeOrder DEF Inf, Unit
<1>7. U % 2 = 0
  BY <1>4
<1>8. Bs > 7
  BY <1>2, <1>3
<1>9. QED
  BY <1>2, <1>3, <1>4, <1>5, <1>6, <1>7, <1>8

\* The value of a pattern with its leading one at place l.
LEMMA ValueAt ==
  ASSUME NEW f \in Format, NEW w \in Pattern(f), NEW l \in (-1) .. XLen, NEW n \in Nat,
         Unit(f) <= n, n <= 2 * Unit(f),
         Magnitude(f, w) = (l + 2^(ExpBits[f] - 1) - 2) * Unit(f) + n
  PROVE  /\ ~isZero(f, w) /\ Ulp(f, l) \in Nat /\ Ulp(f, l) > 0 /\ (n % 2 = 0 => frac(f, w) % 2 = 0)
         /\ mant(f, w) * 2^(scale(f, w) + FracBits["d"] + 1) = n * Ulp(f, l)
         /\ l < XLen => Ulp(f, l + 1) = 2 * Ulp(f, l)
<1>1. PICK Bs, U, Fb, D \in Nat :
           /\ Bs = 2^(ExpBits[f] - 1) /\ U = Unit(f) /\ Fb = FracBits[f] /\ D = FracBits["d"]
           /\ Bs > XLen /\ Bs > 7 /\ EMax(f) = 2 * Bs - 1 /\ scaleMin(f) = 2 - Bs - Fb
           /\ U > 3 /\ U % 2 = 0 /\ Fb <= D /\ Fb > 1 /\ MaxPlace = XLen + D + 2 /\ XLen \in Nat
  BY Bias, ZenonT(60)
<1>2. PICK k \in 0 .. MaxPlace : k = l - Fb + D + 1 /\ k < MaxPlace
  BY <1>1
<1>3. PICK P \in Nat : P = 2^k /\ P = Ulp(f, l) /\ P > 0 /\ 2^(k + 1) = 2 * P
  BY <1>1, <1>2, Powers DEF Ulp
<1>4. l < XLen => Ulp(f, l + 1) = 2 * P
  <2>1. (l + 1) - Fb + D + 1 = k + 1
    BY <1>2
  <2>2. QED
    BY <1>1, <1>3, <2>1 DEF Ulp
<1>5. mant(f, w) = IF exp(f, w) = 0 THEN frac(f, w) ELSE U + frac(f, w)
  BY <1>1, Zenon DEF mant, Unit
<1>6. scale(f, w) = scaleMin(f) + (IF exp(f, w) = 0 THEN 0 ELSE exp(f, w) - 1)
  BY DEF scale
<1>7. CASE n < 2 * U
  <2>1. PICK i \in Int, j \in 0 .. (U - 1) : i = l + Bs - 1 /\ j = n - U
    BY <1>1, <1>7
  <2>2. i * U + j = (l + Bs - 2) * U + n
    <3>1. i * U = (l + Bs - 2) * U + U
      <4>1. PICK h \in Int : h = l + Bs - 2 /\ i = h + 1
        BY <1>1, <2>1
      <4>2. (h + 1) * U = h * U + U
        BY ONLY h \in Int, U \in Nat
      <4>3. QED
        BY <4>1, <4>2
    <3>2. PICK y \in Int : y = (l + Bs - 2) * U
      BY <1>1
    <3>3. QED
      BY <2>1, <3>1, <3>2
  <2>3. exp(f, w) = i /\ frac(f, w) = j
    BY <1>1, <2>1, <2>2, ExpFrac
  <2>4. i > 0
    BY <1>1, <2>1
  <2>5. mant(f, w) = n /\ scale(f, w) + D + 1 = k
    BY <1>1, <1>2, <1>5, <1>6, <2>1, <2>3, <2>4
  <2>6. ~isZero(f, w)
    BY <2>3, <2>4, MagnitudeOrder DEF isZero
  <2>7. n % 2 = 0 => j % 2 = 0
    BY <1>1, <2>1
  <2>8. mant(f, w) * 2^(scale(f, w) + FracBits["d"] + 1) = n * Ulp(f, l)
    BY <1>1, <1>3, <2>5, Zenon
  <2>9. QED
    BY <1>3, <1>4, <2>3, <2>6, <2>7, <2>8
<1>8. CASE n = 2 * U
  <2>1. PICK i \in Int, j \in 0 .. (U - 1) : i = l + Bs /\ j = 0
    BY <1>1
  <2>2. i * U + j = (l + Bs - 2) * U + n
    <3>1. PICK h \in Int : h = l + Bs - 2 /\ i = h + 2
      BY <1>1, <2>1
    <3>2. (h + 2) * U = h * U + 2 * U
      BY ONLY h \in Int, U \in Nat
    <3>3. PICK y \in Int : y = h * U
      BY <3>1
    <3>4. QED
      BY <1>8, <2>1, <3>1, <3>2, <3>3
  <2>3. exp(f, w) = i /\ frac(f, w) = j
    BY <1>1, <2>1, <2>2, ExpFrac
  <2>4. i > 0
    BY <1>1, <2>1
  <2>5. mant(f, w) = U /\ scale(f, w) + D + 1 = k + 1
    <3>1. exp(f, w) # 0 /\ mant(f, w) = U + j /\ scale(f, w) = scaleMin(f) + (i - 1)
      BY <1>5, <1>6, <2>3, <2>4
    <3>2. scaleMin(f) = 2 - Bs - Fb /\ k = l - Fb + D + 1 /\ i = l + Bs /\ j = 0
      BY <1>1, <1>2, <2>1
    <3>3. U + j = U /\ scaleMin(f) + (i - 1) + D + 1 = k + 1
      BY <3>2
    <3>4. QED
      BY <3>1, <3>3, Zenon
  <2>6. ~isZero(f, w)
    BY <2>3, <2>4, MagnitudeOrder DEF isZero
  <2>7. j % 2 = 0
    BY <2>1
  <2>8. mant(f, w) * 2^(scale(f, w) + FracBits["d"] + 1) = n * Ulp(f, l)
    <3>1. mant(f, w) * 2^(scale(f, w) + FracBits["d"] + 1) = U * (2 * P)
      BY <1>1, <1>3, <2>5, Zenon
    <3>2. U * (2 * P) = (2 * U) * P
      BY ONLY U \in Nat, P \in Nat
    <3>3. QED
      BY <1>3, <1>8, <3>1, <3>2
  <2>9. QED
    BY <1>3, <1>4, <2>3, <2>6, <2>7, <2>8
<1>9. QED
  BY <1>1, <1>7, <1>8

\* Rounding an integer: the significand n is that of the nearest multiple of the weight of
\* its last bit, and even in a tie.
LEMMA RoundInt ==
  ASSUME NEW f \in Format, NEW m \in Nat, m > 0, m < 2^XLen
  PROVE  \E l \in 0 .. (XLen - 1), n \in Nat, v \in Nat :
           /\ v = m * 2^(FracBits["d"] + 1) /\ Unit(f) <= n /\ n <= 2 * Unit(f)
           /\ \A s \in {0, 1} : Round(f, s, m, 0) = Signum(f, s) + ((l + 2^(ExpBits[f] - 1) - 2) * Unit(f) + n)
           /\ (l + 2^(ExpBits[f] - 1) - 2) * Unit(f) + n \in 0 .. Inf(f)
           /\ 2 * (v - n * Ulp(f, l)) <= Ulp(f, l) /\ 2 * (n * Ulp(f, l) - v) <= Ulp(f, l)
           /\ 2 * (v - n * Ulp(f, l)) = Ulp(f, l) \/ 2 * (n * Ulp(f, l) - v) = Ulp(f, l) => n % 2 = 0
           /\ n = Unit(f) => v >= n * Ulp(f, l)
           /\ n = 2 * Unit(f) => v <= n * Ulp(f, l)
<1>1. PICK Bs, U, Fb, D \in Nat :
           /\ Bs = 2^(ExpBits[f] - 1) /\ U = Unit(f) /\ Fb = FracBits[f] /\ D = FracBits["d"]
           /\ Bs > XLen /\ Bs > 7 /\ EMax(f) = 2 * Bs - 1 /\ scaleMin(f) = 2 - Bs - Fb
           /\ U > 3 /\ U % 2 = 0 /\ Fb <= D /\ Fb > 1 /\ MaxPlace = XLen + D + 2 /\ XLen \in Nat
           /\ Inf(f) = EMax(f) * U /\ Inf(f) \in Nat
  BY Bias, ZenonT(60)
<1>2. PICK l \in 0 .. (XLen - 1) : l = Log2(m) /\ 2^l <= m /\ m < 2^(l + 1)
  <2>1. XLen \in 0 .. MaxPlace
    BY <1>1
  <2>2. Log2(m) \in 0 .. (XLen - 1) /\ 2^Log2(m) <= m /\ m < 2^(Log2(m) + 1)
    BY <2>1, LeadingOne
  <2>3. QED
    BY <2>2
<1>3. PICK k \in 0 .. MaxPlace : k = l - Fb + D + 1
  BY <1>1
<1>4. PICK P \in Nat : P = 2^k /\ P = Ulp(f, l) /\ P > 0
  BY <1>1, <1>3, Powers DEF Ulp
<1>5. PICK K \in Nat : K = 2^(D + 1) /\ K > 0
  <2>1. D + 1 \in 0 .. MaxPlace
    BY <1>1
  <2>2. QED
    BY <2>1, Powers
<1>6. PICK T \in Nat : T = 2^l /\ T > 0 /\ T <= m /\ m < 2 * T
  <2>1. l \in 0 .. MaxPlace /\ l < MaxPlace
    BY <1>1
  <2>2. 2^l \in Nat /\ 2^l > 0 /\ 2^(l + 1) = 2 * 2^l
    BY <2>1, Powers
  <2>3. QED
    BY <1>2, <2>2
<1>7. U = 2^Fb
  BY <1>1 DEF Unit
<1> DEFINE G(n) == /\ U <= n /\ n <= 2 * U
                   /\ 2 * (m * K - n * P) <= P /\ 2 * (n * P - m * K) <= P
                   /\ 2 * (m * K - n * P) = P \/ 2 * (n * P - m * K) = P => n % 2 = 0
                   /\ n = U => m * K >= n * P
                   /\ n = 2 * U => m * K <= n * P
<1>8. PICK n \in Nat : n = (IF l - Fb <= 0 THEN m * 2^(Fb - l) ELSE RoundShift(m, l - Fb)) /\ G(n)
  <2>1. CASE l - Fb <= 0
    <3>1. Fb - l \in 0 .. MaxPlace /\ l \in 0 .. MaxPlace /\ Fb - l \in 0 .. (MaxPlace - l) /\ l + (Fb - l) = Fb
          /\ k \in 0 .. (MaxPlace - (Fb - l)) /\ (Fb - l) + k = D + 1
      BY <1>1, <1>3, <2>1
    <3>2. PICK Sh \in Nat : Sh = 2^(Fb - l) /\ Sh > 0
      BY <3>1, Powers
    <3>3. 2^(l + (Fb - l)) = 2^l * 2^(Fb - l) /\ 2^((Fb - l) + k) = 2^(Fb - l) * 2^k
      BY <3>1, Powers, Zenon
    <3>4. U = T * Sh /\ K = Sh * P
      BY <1>4, <1>5, <1>6, <1>7, <3>1, <3>2, <3>3, Zenon
    <3>5. PICK n \in Nat : n = m * Sh
      BY <3>2, Scaled
    <3>6. m * K = n * P
      <4>1. m * (Sh * P) = (m * Sh) * P
        BY ONLY m \in Nat, Sh \in Nat, P \in Nat
      <4>2. QED
        BY <3>4, <3>5, <4>1
    <3>7. T * Sh <= m * Sh /\ m * Sh + Sh <= (2 * T) * Sh
      <4>1. T \in Int /\ m \in Int /\ 2 * T \in Int /\ T <= m /\ m < 2 * T
        BY <1>6
      <4>2. QED
        BY ONLY <4>1, Sh \in Nat, Scaled
    <3>8. (2 * T) * Sh = 2 * (T * Sh)
      BY ONLY T \in Nat, Sh \in Nat
    <3>9. U <= n /\ n < 2 * U
      <4>1. PICK y \in Int : y = T * Sh
        OBVIOUS
      <4>2. y = U /\ y <= n /\ n + Sh <= 2 * y
        BY <3>4, <3>5, <3>7, <3>8, <4>1
      <4>3. QED
        BY ONLY <3>2, <4>2, y \in Int, U \in Nat, n \in Nat, Sh \in Nat
    <3>10. PICK y \in Int : y = n * P /\ y = m * K
      BY <3>6
    <3>11. G(n)
      <4>1. 2 * (y - y) = 0
        OBVIOUS
      <4>2. 2 * (m * K - n * P) = 0 /\ 2 * (n * P - m * K) = 0 /\ m * K >= n * P /\ m * K <= n * P
        BY <3>10, <4>1
      <4>3. QED
        BY <1>4, <3>9, <4>2
    <3>12. QED
      BY <2>1, <3>2, <3>5, <3>11
  <2>2. CASE ~(l - Fb <= 0)
    <3>1. l - Fb \in 0 .. MaxPlace /\ Fb \in 0 .. MaxPlace /\ l - Fb \in 0 .. (MaxPlace - Fb) /\ Fb + (l - Fb) = l
          /\ D + 1 \in 0 .. (MaxPlace - (l - Fb)) /\ (l - Fb) + (D + 1) = k
      BY <1>1, <1>3, <2>2
    <3>2. PICK R \in Nat : R = 2^(l - Fb) /\ R > 0
      BY <3>1, Powers
    <3>3. 2^(Fb + (l - Fb)) = 2^Fb * 2^(l - Fb) /\ 2^((l - Fb) + (D + 1)) = 2^(l - Fb) * 2^(D + 1)
      BY <3>1, Powers, Zenon
    <3>4. T = U * R /\ P = R * K
      BY <1>4, <1>5, <1>6, <1>7, <3>1, <3>2, <3>3, Zenon
    <3>5. PICK q \in Nat, r \in Nat :
            /\ m = q * R + r /\ r < R
            /\ RoundShift(m, l - Fb) = IF 2 * r > R \/ (2 * r = R /\ q % 2 = 1) THEN q + 1 ELSE q
      <4>1. PICK j \in 0 .. MaxPlace : j = l - Fb
        BY <3>1
      <4>2. \E q \in Nat, r \in Nat :
              /\ m = q * 2^j + r /\ r < 2^j
              /\ RoundShift(m, j) = IF 2 * r > 2^j \/ (2 * r = 2^j /\ q % 2 = 1) THEN q + 1 ELSE q
        BY Shifted
      <4>3. R = 2^j /\ RoundShift(m, j) = RoundShift(m, l - Fb)
        BY <3>2, <4>1, Zenon
      <4>4. QED
        BY <4>2, <4>3, Zenon
    <3>6. U <= q /\ q < 2 * U
      <4>1. /\ q < U => q * R + R <= U * R
            /\ 2 * U <= q => (2 * U) * R <= q * R
        <5>1. q \in Int /\ U \in Int /\ 2 * U \in Int
          OBVIOUS
        <5>2. QED
          BY ONLY <5>1, R \in Nat, Scaled
      <4>2. PICK y, z \in Int : y = U * R /\ z = q * R /\ (2 * U) * R = 2 * y
        BY ONLY U \in Nat, R \in Nat, q \in Nat
      <4>3. /\ T = y /\ m = z + r /\ r < R /\ T <= m /\ m < 2 * T
            /\ (q < U => z + R <= y) /\ (2 * U <= q => 2 * y <= z)
        BY <1>6, <3>4, <3>5, <4>1, <4>2
      <4>4. QED
        BY ONLY <4>3, y \in Int, z \in Int, T \in Nat, m \in Nat, r \in Nat, R \in Nat, q \in Nat, U \in Nat
    <3>7. PICK z, a \in Int : z = q * P /\ a = r * K /\ m * K = z + a
      <4>1. (q * R + r) * K = q * (R * K) + r * K
        BY ONLY q \in Nat, r \in Nat, R \in Nat, K \in Nat
      <4>2. q * P \in Int /\ r * K \in Int
        OBVIOUS
      <4>3. QED
        BY <3>4, <3>5, <4>1, <4>2
    <3>8. /\ 0 <= a
          /\ 2 * r <= R => 2 * a <= P
          /\ 2 * r < R => 2 * a < P
          /\ 2 * r >= R => 2 * a >= P
          /\ 2 * r > R => 2 * a > P
          /\ a < P
      <4>1. (2 * r) * K = 2 * (r * K) /\ r * K \in Nat
        BY Scaled
      <4>2. /\ 2 * r <= R => (2 * r) * K <= R * K
            /\ 2 * r < R => (2 * r) * K + K <= R * K
            /\ R <= 2 * r => R * K <= (2 * r) * K
            /\ R < 2 * r => R * K + K <= (2 * r) * K
            /\ r < R => r * K + K <= R * K
        <5>1. 2 * r \in Int /\ R \in Int /\ r \in Int
          OBVIOUS
        <5>2. QED
          BY ONLY <5>1, K \in Nat, Scaled
      <4>3. /\ 2 * r <= R => 2 * a <= P
            /\ 2 * r < R => 2 * a + K <= P
            /\ R <= 2 * r => P <= 2 * a
            /\ R < 2 * r => P + K <= 2 * a
            /\ r < R => a + K <= P
            /\ a \in Nat /\ r < R /\ K > 0
        BY <1>5, <3>4, <3>5, <3>7, <4>1, <4>2
      <4>4. QED
        BY ONLY <4>3, a \in Int, P \in Nat, K \in Nat, r \in Nat, R \in Nat
    <3>9. CASE 2 * r > R \/ (2 * r = R /\ q % 2 = 1)
      <4>1. PICK n \in Nat : n = q + 1 /\ RoundShift(m, l - Fb) = n
        BY <3>5, <3>9
      <4>2. n * P = z + P
        BY <3>7, <4>1
      <4>3. 2 * (n * P - m * K) = 2 * (P - a) /\ 2 * (m * K - n * P) = 2 * (a - P)
            /\ (m * K >= n * P <=> a >= P) /\ (m * K <= n * P <=> a <= P)
        BY <3>7, <4>2
      <4>4. /\ 2 * (a - P) <= P /\ 2 * (P - a) <= P
            /\ 2 * (a - P) = P \/ 2 * (P - a) = P => n % 2 = 0
            /\ a <= P /\ U < n /\ n <= 2 * U
        <5>1. 2 * a >= P /\ (2 * a = P => 2 * r = R) /\ a < P
          BY <3>8, <3>9
        <5>2. 2 * r = R => n % 2 = 0
          BY <3>9, <4>1
        <5>3. QED
          BY <1>4, <3>6, <4>1, <5>1, <5>2
      <4>5. G(n)
        BY <4>3, <4>4
      <4>6. QED
        BY <2>2, <4>1, <4>5
    <3>10. CASE ~(2 * r > R \/ (2 * r = R /\ q % 2 = 1))
      <4>1. RoundShift(m, l - Fb) = q
        BY <3>5, <3>10
      <4>2. 2 * (q * P - m * K) = -(2 * a) /\ 2 * (m * K - q * P) = 2 * a
            /\ (m * K >= q * P <=> a >= 0) /\ (m * K <= q * P <=> a <= 0)
        BY <3>7
      <4>3. /\ 2 * a <= P /\ -(2 * a) <= P
            /\ 2 * a = P \/ -(2 * a) = P => q % 2 = 0
            /\ a >= 0 /\ q # 2 * U
        <5>1. 2 * a <= P /\ (2 * a = P => 2 * r = R) /\ a >= 0
          BY <3>8, <3>10
        <5>2. 2 * r = R => q % 2 = 0
          BY <3>10
        <5>3. QED
          BY <1>4, <3>6, <5>1, <5>2
      <4>4. G(q)
        BY <3>6, <4>2, <4>3
      <4>5. QED
        BY <2>2, <4>1, <4>4
    <3>11. QED
      BY <3>9, <3>10
  <2>3. QED
    BY <2>1, <2>2
<1>9. PICK h \in Int : h = l + Bs - 2
  BY <1>1
<1>10. h * U + n \in 0 .. Inf(f) /\ h * U + n < Inf(f) /\ h * U + n \in Int
  <2>1. h + 2 \in Int /\ EMax(f) \in Int /\ h + 2 < EMax(f) /\ 0 \in Int /\ 0 <= h
    BY <1>1, <1>9
  <2>2. (h + 2) * U + U <= EMax(f) * U /\ 0 * U <= h * U
    BY ONLY <2>1, h \in Int, U \in Nat, Scaled
  <2>3. (h + 2) * U = h * U + 2 * U
    BY ONLY h \in Int, U \in Nat
  <2>4. PICK y, z \in Int : y = h * U /\ z = EMax(f) * U
    BY <2>1
  <2>5. y + 2 * U + U <= z /\ 0 <= y /\ Inf(f) = z /\ n <= 2 * U /\ U > 3
    BY <1>1, <1>8, <2>2, <2>3, <2>4
  <2>6. y + n \in 0 .. z /\ y + n < z
    BY ONLY <2>5, y \in Int, z \in Int, n \in Nat, U \in Nat
  <2>7. QED
    BY <2>4, <2>5, <2>6
<1>11. ASSUME NEW s \in {0, 1} PROVE Round(f, s, m, 0) = Signum(f, s) + (h * U + n)
  <2> DEFINE ideal == Log2(m) + 0 - FracBits[f]
             qq == IF ideal < scaleMin(f) THEN scaleMin(f) ELSE ideal
             nn == IF qq <= 0 THEN m * 2^(0 - qq)
                   ELSE IF qq - 0 > Log2(m) + 1 THEN 0 ELSE RoundShift(m, qq - 0)
             word == (qq - scaleMin(f)) * 2^FracBits[f] + nn
  <2>1. Round(f, s, m, 0) = Signum(f, s) + (IF word >= Inf(f) THEN Inf(f) ELSE word)
    <3>1. m # 0
      OBVIOUS
    <3>2. QED
      BY <3>1, Zenon DEF Round
  <2>2. qq = l - Fb
    <3>1. ideal = l - Fb
      BY <1>1, <1>2
    <3>2. ~(l - Fb < scaleMin(f))
      BY <1>1
    <3>3. QED
      BY <3>1, <3>2, Zenon
  <2>3. qq - scaleMin(f) = h
    BY <1>1, <1>9, <2>2
  <2> HIDE DEF qq
  <2>4. nn = n
    <3>1. CASE l - Fb <= 0
      <4>1. 0 - qq = Fb - l
        BY <2>2
      <4>2. QED
        BY <1>8, <2>2, <3>1, <4>1, Zenon
    <3>2. CASE ~(l - Fb <= 0)
      <4>1. qq - 0 = l - Fb /\ ~(qq - 0 > Log2(m) + 1)
        BY <1>1, <1>2, <2>2
      <4>2. QED
        BY <1>8, <2>2, <3>2, <4>1, Zenon
    <3>3. QED
      BY <3>1, <3>2
  <2> HIDE DEF nn
  <2>5. word = h * U + n
    BY <1>7, <1>1, <2>3, <2>4, Zenon
  <2> HIDE DEF word
  <2>6. ~(word >= Inf(f))
    BY <1>1, <1>10, <2>5
  <2>7. QED
    BY <2>1, <2>5, <2>6
<1>12. PICK v \in Nat : v = m * K
  BY Scaled
<1>13. /\ 2 * (v - n * P) <= P /\ 2 * (n * P - v) <= P
       /\ 2 * (v - n * P) = P \/ 2 * (n * P - v) = P => n % 2 = 0
       /\ n = U => v >= n * P
       /\ n = 2 * U => v <= n * P
       /\ U <= n /\ n <= 2 * U
  BY <1>8, <1>12, Zenon
<1> HIDE DEF G
<1>14. v = m * 2^(FracBits["d"] + 1)
  BY <1>1, <1>5, <1>12
<1>15. \A s \in {0, 1} : Round(f, s, m, 0) = Signum(f, s) + ((l + 2^(ExpBits[f] - 1) - 2) * Unit(f) + n)
  BY <1>1, <1>9, <1>11, Zenon
<1>16. (l + 2^(ExpBits[f] - 1) - 2) * Unit(f) + n \in 0 .. Inf(f)
  BY <1>1, <1>9, <1>10, Zenon
<1>17. QED
  BY <1>1, <1>4, <1>13, <1>14, <1>15, <1>16, ZenonT(60)

\* Every integer of the four types is converted to the nearest pattern, and to the even
\* one in a tie.
LEMMA FromIntNearest ==
  ASSUME NEW f \in Format, NEW i \in Int, -(2^XLen) < i, i < 2^XLen
  PROVE  FromInt(f, i) \in Pattern(f) /\ IsNearestTo(f, i, FromInt(f, i))
<1>1. PICK Bs, U, Fb, D \in Nat :
           /\ Bs = 2^(ExpBits[f] - 1) /\ U = Unit(f) /\ Fb = FracBits[f] /\ D = FracBits["d"]
           /\ U > 3 /\ Bs > 7 /\ Inf(f) + U = Top(f) /\ Top(f) \in Nat /\ Inf(f) \in Nat /\ XLen \in Nat
  BY Bias, SMTT(40)
<1>2. CASE i = 0
  <2>1. FromInt(f, i) = Signum(f, 0)
    BY <1>2 DEF FromInt, Round
  <2>2. Signum(f, 0) = 0
    BY Fields DEF Signum, Top
  <2>3. FromInt(f, i) = 0
    BY <2>1, <2>2
  <2>4. QED
    BY <1>2, <2>3, Fields DEF IsNearestTo, Pattern
<1>3. CASE i # 0
  <2>1. PICK s \in {0, 1}, m \in Nat : /\ m > 0 /\ m < 2^XLen /\ i = (IF s = 1 THEN -m ELSE m)
                                       /\ FromInt(f, i) = Round(f, s, m, 0)
    <3>1. CASE i < 0
      <4>1. -i \in Nat /\ -i > 0 /\ -i < 2^XLen /\ i = -(-i) /\ FromInt(f, i) = Round(f, 1, -i, 0)
        <5>1. 2^XLen \in Int
          <6>1. XLen \in 0 .. MaxPlace
            BY <1>1, Places DEF Format
          <6>2. QED
            BY <6>1, Powers
        <5>2. QED
          BY <3>1, <5>1 DEF FromInt
      <4>2. QED
        BY <4>1
    <3>2. CASE i > 0
      BY <3>2 DEF FromInt
    <3>3. QED
      BY <1>3, <3>1, <3>2
  <2>2. PICK l \in 0 .. (XLen - 1), n \in Nat, v \in Nat :
           /\ v = m * 2^(D + 1) /\ U <= n /\ n <= 2 * U
           /\ Round(f, s, m, 0) = Signum(f, s) + ((l + Bs - 2) * U + n)
           /\ (l + Bs - 2) * U + n \in 0 .. Inf(f)
           /\ 2 * (v - n * Ulp(f, l)) <= Ulp(f, l) /\ 2 * (n * Ulp(f, l) - v) <= Ulp(f, l)
           /\ 2 * (v - n * Ulp(f, l)) = Ulp(f, l) \/ 2 * (n * Ulp(f, l) - v) = Ulp(f, l) => n % 2 = 0
           /\ n = U => v >= n * Ulp(f, l)
           /\ n = 2 * U => v <= n * Ulp(f, l)
    <3>1. PICK l \in 0 .. (XLen - 1), n \in Nat, v \in Nat :
            /\ v = m * 2^(FracBits["d"] + 1) /\ Unit(f) <= n /\ n <= 2 * Unit(f)
            /\ \A t \in {0, 1} :
                 Round(f, t, m, 0) = Signum(f, t) + ((l + 2^(ExpBits[f] - 1) - 2) * Unit(f) + n)
            /\ (l + 2^(ExpBits[f] - 1) - 2) * Unit(f) + n \in 0 .. Inf(f)
            /\ 2 * (v - n * Ulp(f, l)) <= Ulp(f, l) /\ 2 * (n * Ulp(f, l) - v) <= Ulp(f, l)
            /\ 2 * (v - n * Ulp(f, l)) = Ulp(f, l) \/ 2 * (n * Ulp(f, l) - v) = Ulp(f, l) => n % 2 = 0
            /\ n = Unit(f) => v >= n * Ulp(f, l)
            /\ n = 2 * Unit(f) => v <= n * Ulp(f, l)
      BY <2>1, RoundInt, Zenon
    <3>2. Bs = 2^(ExpBits[f] - 1) /\ U = Unit(f) /\ D = FracBits["d"]
      BY <1>1
    <3>3. /\ v = m * 2^(D + 1) /\ U <= n /\ n <= 2 * U
          /\ Round(f, s, m, 0) = Signum(f, s) + ((l + Bs - 2) * U + n)
          /\ (l + Bs - 2) * U + n \in 0 .. Inf(f)
          /\ n = U => v >= n * Ulp(f, l)
          /\ n = 2 * U => v <= n * Ulp(f, l)
      BY <3>1, <3>2, Zenon
    <3>4. QED
      BY <3>1, <3>3, Zenon
  <2>3. PICK h \in Int, M \in Int : h = l + Bs - 2 /\ M = h * U + n /\ h > 0
    BY <1>1
  <2>4. M \in 0 .. (Top(f) - 1) /\ M + 1 \in 0 .. (Top(f) - 1) /\ M - 1 \in 0 .. (Top(f) - 1)
    <3>1. M \in 0 .. Inf(f)
      BY <2>2, <2>3
    <3>2. M > 0
      <4>1. h * U \in Nat
        BY <2>3, Scaled
      <4>2. PICK y \in Nat : y = h * U
        BY <4>1
      <4>3. M = y + n /\ n > 0
        BY <1>1, <2>2, <2>3, <4>2
      <4>4. QED
        BY <4>3
    <3>3. QED
      BY <1>1, <3>1, <3>2
  <2>5. PICK w \in Pattern(f) : /\ w = FromInt(f, i) /\ Magnitude(f, w) = M /\ sign(f, w) = s
                                /\ w + 1 \in Pattern(f) /\ Magnitude(f, w + 1) = M + 1 /\ sign(f, w + 1) = s
                                /\ w - 1 \in Pattern(f) /\ Magnitude(f, w - 1) = M - 1 /\ sign(f, w - 1) = s
    <3>1. PICK g \in Int : g = Signum(f, s)
      BY Fields DEF Signum, Top
    <3>2. FromInt(f, i) = g + M
      BY <2>1, <2>2, <2>3, <3>1
    <3>3. PICK w \in Int : w = FromInt(f, i) /\ w = M + g /\ w + 1 = (M + 1) + g /\ w - 1 = (M - 1) + g
      BY <3>1, <3>2
    <3>4. /\ M + g \in Pattern(f) /\ Magnitude(f, M + g) = M /\ sign(f, M + g) = s
          /\ (M + 1) + g \in Pattern(f) /\ Magnitude(f, (M + 1) + g) = M + 1 /\ sign(f, (M + 1) + g) = s
          /\ (M - 1) + g \in Pattern(f) /\ Magnitude(f, (M - 1) + g) = M - 1 /\ sign(f, (M - 1) + g) = s
      BY <2>4, <3>1, FromParts
    <3>5. QED
      BY <3>3, <3>4, Zenon
  <2> DEFINE Weight(u) == mant(f, u) * 2^(scale(f, u) + D + 1)
  <2>6. PICK P \in Nat, y \in Int : /\ P = Ulp(f, l) /\ P > 0 /\ y = n * P
                                    /\ ~isZero(f, w) /\ Weight(w) = y /\ (n % 2 = 0 => frac(f, w) % 2 = 0)
                                    /\ Ulp(f, l + 1) = 2 * P
    <3>1. l \in (-1) .. XLen /\ l < XLen
      BY <1>1
    <3>2. Magnitude(f, w) = (l + 2^(ExpBits[f] - 1) - 2) * Unit(f) + n /\ Unit(f) <= n /\ n <= 2 * Unit(f)
      BY <1>1, <2>2, <2>3, <2>5
    <3>3. /\ ~isZero(f, w) /\ Ulp(f, l) \in Nat /\ Ulp(f, l) > 0 /\ (n % 2 = 0 => frac(f, w) % 2 = 0)
          /\ mant(f, w) * 2^(scale(f, w) + FracBits["d"] + 1) = n * Ulp(f, l)
          /\ Ulp(f, l + 1) = 2 * Ulp(f, l)
      BY <3>1, <3>2, ValueAt
    <3>4. n * Ulp(f, l) \in Int
      BY <3>3
    <3>5. QED
      BY <1>1, <3>3, <3>4, Zenon
  <2>7. ASSUME NEW u \in Pattern(f), NEW ll \in (-1) .. XLen, NEW nn \in Nat, U <= nn, nn <= 2 * U,
               Magnitude(f, u) = (ll + Bs - 2) * U + nn
        PROVE  ~isZero(f, u) /\ Weight(u) = nn * Ulp(f, ll)
    <3>1. Magnitude(f, u) = (ll + 2^(ExpBits[f] - 1) - 2) * Unit(f) + nn /\ Unit(f) <= nn /\ nn <= 2 * Unit(f)
      BY <1>1, <2>7
    <3>2. QED
      BY <1>1, <3>1, ValueAt
  <2>8. PICK a \in Int : ~isZero(f, w + 1) /\ Weight(w + 1) = a /\ (a = y + P \/ a = y + 2 * P)
    <3>1. CASE n < 2 * U
      <4>1. M + 1 = (l + Bs - 2) * U + (n + 1)
        <5>1. PICK z \in Int : z = (l + Bs - 2) * U
          BY <1>1
        <5>2. QED
          BY <2>3, <5>1
      <4>2. l \in (-1) .. XLen /\ n + 1 \in Nat /\ U <= n + 1 /\ n + 1 <= 2 * U
        BY <1>1, <2>2, <3>1
      <4>3. ~isZero(f, w + 1) /\ Weight(w + 1) = (n + 1) * Ulp(f, l)
        <5>1. Magnitude(f, w + 1) = (l + Bs - 2) * U + (n + 1)
          BY <2>5, <4>1, Zenon
        <5>2. QED
          BY <2>5, <2>7, <4>2, <5>1, Zenon
      <4>4. (n + 1) * P = y + P
        BY <2>6
      <4>5. QED
        BY <2>6, <4>3, <4>4
    <3>2. CASE n = 2 * U
      <4>1. M + 1 = ((l + 1) + Bs - 2) * U + (U + 1)
        <5>1. ((l + 1) + Bs - 2) * U = h * U + U
          <6>1. (l + 1) + Bs - 2 = h + 1
            BY <1>1, <2>3
          <6>2. (h + 1) * U = h * U + U
            BY ONLY h \in Int, U \in Nat
          <6>3. QED
            BY <6>1, <6>2
        <5>2. PICK z \in Int : z = h * U
          BY <2>3
        <5>3. QED
          BY <2>3, <3>2, <5>1, <5>2
      <4>2. l + 1 \in (-1) .. XLen /\ U + 1 \in Nat /\ U <= U + 1 /\ U + 1 <= 2 * U
        BY <1>1
      <4>3. ~isZero(f, w + 1) /\ Weight(w + 1) = (U + 1) * Ulp(f, l + 1)
        <5>1. Magnitude(f, w + 1) = ((l + 1) + Bs - 2) * U + (U + 1)
          BY <2>5, <4>1, Zenon
        <5>2. QED
          BY <2>5, <2>7, <4>2, <5>1, Zenon
      <4>4. (U + 1) * (2 * P) = (2 * U) * P + 2 * P
        BY ONLY U \in Nat, P \in Nat
      <4>5. (U + 1) * Ulp(f, l + 1) = y + 2 * P
        BY <2>6, <3>2, <4>4
      <4>6. QED
        BY <2>6, <4>3, <4>5
    <3>3. QED
      BY <2>2, <3>1, <3>2
  <2>9. PICK b, H \in Int : /\ ~isZero(f, w - 1) /\ Weight(w - 1) = b
                            /\ b = y - P \/ (b = y - H /\ n = U /\ H > 0)
    <3>1. CASE n > U
      <4>1. M - 1 = (l + Bs - 2) * U + (n - 1)
        <5>1. PICK z \in Int : z = (l + Bs - 2) * U
          BY <1>1
        <5>2. QED
          BY <2>3, <5>1
      <4>2. l \in (-1) .. XLen /\ n - 1 \in Nat /\ U <= n - 1 /\ n - 1 <= 2 * U
        BY <1>1, <2>2, <3>1
      <4>3. ~isZero(f, w - 1) /\ Weight(w - 1) = (n - 1) * Ulp(f, l)
        <5>1. Magnitude(f, w - 1) = (l + Bs - 2) * U + (n - 1)
          BY <2>5, <4>1, Zenon
        <5>2. QED
          BY <2>5, <2>7, <4>2, <5>1, Zenon
      <4>4. (n - 1) * P = y - P
        BY <2>6
      <4>5. QED
        BY <2>6, <4>3, <4>4
    <3>2. CASE n = U
      <4>1. M - 1 = ((l - 1) + Bs - 2) * U + (2 * U - 1)
        <5>1. ((l - 1) + Bs - 2) * U = h * U - U
          <6>1. (l - 1) + Bs - 2 = h - 1
            BY <1>1, <2>3
          <6>2. (h - 1) * U = h * U - U
            BY ONLY h \in Int, U \in Nat
          <6>3. QED
            BY <6>1, <6>2
        <5>2. PICK z \in Int : z = h * U
          BY <2>3
        <5>3. QED
          BY <2>3, <3>2, <5>1, <5>2
      <4>2. l - 1 \in (-1) .. XLen /\ 2 * U - 1 \in Nat /\ U <= 2 * U - 1 /\ 2 * U - 1 <= 2 * U /\ l - 1 < XLen
            /\ (l - 1) + 1 = l
        BY <1>1
      <4>3. Magnitude(f, w - 1) = ((l - 1) + Bs - 2) * U + (2 * U - 1)
        BY <2>5, <4>1, Zenon
      <4>4. ~isZero(f, w - 1) /\ Weight(w - 1) = (2 * U - 1) * Ulp(f, l - 1)
        BY <2>5, <2>7, <4>2, <4>3, Zenon
      <4>5. PICK H \in Nat : H = Ulp(f, l - 1) /\ H > 0 /\ P = 2 * H
        <5>1. /\ w - 1 \in Pattern(f) /\ Unit(f) <= 2 * U - 1 /\ 2 * U - 1 <= 2 * Unit(f)
              /\ Magnitude(f, w - 1) = ((l - 1) + 2^(ExpBits[f] - 1) - 2) * Unit(f) + (2 * U - 1)
          BY <1>1, <2>5, <4>2, <4>3, Zenon
        <5>2. Ulp(f, l - 1) \in Nat /\ Ulp(f, l - 1) > 0 /\ Ulp(f, (l - 1) + 1) = 2 * Ulp(f, l - 1)
          BY <4>2, <5>1, ValueAt
        <5>3. QED
          BY <2>6, <4>2, <5>2
      <4>6. (2 * U - 1) * H = U * (2 * H) - H
        BY ONLY U \in Nat, H \in Nat
      <4>7. (2 * U - 1) * H = y - H /\ y - H \in Int
        BY <2>6, <3>2, <4>5, <4>6
      <4>8. ~isZero(f, w - 1) /\ Weight(w - 1) = y - H
        BY <4>4, <4>5, <4>7, Zenon
      <4>9. H \in Int /\ H > 0
        BY <4>5
      <4>10. QED
        BY <3>2, <4>7, <4>8, <4>9, Zenon
    <3>3. QED
      BY <2>2, <3>1, <3>2
  <2> HIDE DEF Weight
  <2>10. PICK K \in Int : K = 2^(D + 1) /\ v = m * K
    BY <2>2
  <2> DEFINE Val(u) == IF isZero(f, u) THEN 0 ELSE (SignedMant(f, u) * 2^(scale(f, u) + FracBits["d"] + 1))
             Far(u) == IF Val(u) < i * 2^(FracBits["d"] + 1) THEN i * 2^(FracBits["d"] + 1) - Val(u)
                       ELSE Val(u) - i * 2^(FracBits["d"] + 1)
  <2>11. SUFFICES \A u \in {w - 1, w + 1} : Far(w) < Far(u) \/ (Far(w) = Far(u) /\ frac(f, w) % 2 = 0)
    BY <1>3, <2>5, ZenonT(60) DEF IsNearestTo
  <2>12. ASSUME NEW u \in Pattern(f), NEW z \in Int, sign(f, u) = s, ~isZero(f, u), Weight(u) = z
         PROVE  Far(u) = IF z < v THEN v - z ELSE z - v
    <3>1. i * 2^(FracBits["d"] + 1) = IF s = 1 THEN -v ELSE v
      BY <1>1, <2>1, <2>10
    <3>2. Val(u) = IF s = 1 THEN -z ELSE z
      <4>1. PICK p \in Int, q \in Int : p = mant(f, u) /\ q = 2^(scale(f, u) + D + 1) /\ p * q = z
        <5>1. scale(f, u) + D + 1 \in Int
          BY Mantissas
        <5>2. QED
          BY <2>12, <5>1, Mantissas DEF Weight
      <4>2. Val(u) = SignedMant(f, u) * q
        BY <1>1, <2>12, <4>1
      <4>3. SignedMant(f, u) = IF s = 1 THEN -p ELSE p
        BY <2>12, <4>1 DEF SignedMant
      <4>4. (-p) * q = -(p * q)
        BY ONLY p \in Int, q \in Int
      <4>5. QED
        BY <4>1, <4>2, <4>3, <4>4
    <3> HIDE DEF Val
    <3>3. QED
      BY <3>1, <3>2
  <2>13. /\ Far(w) = (IF y < v THEN v - y ELSE y - v)
         /\ Far(w + 1) = (IF a < v THEN v - a ELSE a - v)
         /\ Far(w - 1) = (IF b < v THEN v - b ELSE b - v)
    BY <2>5, <2>6, <2>8, <2>9, <2>12, ZenonT(60)
  <2>14. /\ 2 * (v - y) <= P /\ 2 * (y - v) <= P /\ P > 0
         /\ 2 * (v - y) = P \/ 2 * (y - v) = P => frac(f, w) % 2 = 0
         /\ n = U => v >= y
    BY <2>2, <2>6, Zenon
  <2> HIDE DEF Far
  <2>15. PICK c, cp, cm \in Int : c = Far(w) /\ cp = Far(w + 1) /\ cm = Far(w - 1)
    <3>1. Far(w) \in Int /\ Far(w + 1) \in Int /\ Far(w - 1) \in Int
      BY <2>13
    <3>2. QED
      BY <3>1, Zenon
  <2>16. c < cp \/ (c = cp /\ (2 * (v - y) = P \/ 2 * (y - v) = P))
    BY ONLY <2>8, <2>13, <2>14, <2>15, v \in Nat, y \in Int, P \in Nat, a \in Int
  <2>17. c < cm \/ (c = cm /\ (2 * (v - y) = P \/ 2 * (y - v) = P))
    BY ONLY <2>9, <2>13, <2>14, <2>15, v \in Nat, y \in Int, P \in Nat, b \in Int, H \in Int
  <2>18. QED
    BY <2>14, <2>15, <2>16, <2>17
<1>4. QED
  BY <1>2, <1>3

\* From 2^(XLen - 1) on, and with an infinity or a NaN, llrint answers INT64_MIN.
LEMMA Beyond ==
  ASSUME NEW f \in Format, NEW w \in Pattern(f), BeyondLong(f, w)
  PROVE  llrint(f, w) = INT64_MIN
<1>1. PICK Bs, Fb, E, Xl \in Nat :
        /\ Bs = 2^(ExpBits[f] - 1) /\ Fb = FracBits[f] /\ E = exp(f, w) /\ Xl = XLen
        /\ scaleMin(f) = 2 - Bs - Fb /\ Bs > Xl /\ E >= Bs + Xl - 2 /\ E > 0
        /\ Fb \in 0 .. MaxPlace /\ Fb + 1 \in 0 .. MaxPlace
  <2>1. PICK Bs \in Nat : Bs = 2^(ExpBits[f] - 1) /\ Bs > XLen /\ scaleMin(f) = 2 - Bs - FracBits[f]
    BY Scales
  <2>2. /\ FracBits[f] \in Nat /\ 2 * FracBits[f] + 5 <= MaxPlace /\ MaxPlace \in Nat
        /\ XLen \in Nat /\ 1 + ExpBits[f] + FracBits[f] <= XLen /\ ExpBits[f] \in Nat /\ ExpBits[f] > 3
    BY Places
  <2>3. exp(f, w) \in Nat
    BY Parts, Fields
  <2>4. exp(f, w) >= Bs + XLen - 2
    BY <2>1 DEF BeyondLong
  <2>5. QED
    BY <2>1, <2>2, <2>3, <2>4
<1>2. CASE E = EMax(f)
  <2>1. ~isZero(f, w)
    BY <1>1, MagnitudeOrder DEF isZero
  <2>2. QED
    BY <1>1, <1>2, <2>1, Zenon DEF llrint
<1>3. CASE E # EMax(f)
  <2>1. ~isZero(f, w)
    BY <1>1, MagnitudeOrder DEF isZero
  <2>2. PICK m, U \in Nat : m = mant(f, w) /\ U = 2^Fb /\ U <= m /\ m < 2 * U /\ m > 0
    <3>1. /\ frac(f, w) \in 0 .. (Unit(f) - 1) /\ Unit(f) \in Nat /\ Unit(f) > 0
      BY Parts, Fields
    <3>2. mant(f, w) = Unit(f) + frac(f, w)
      BY <1>1 DEF mant, Unit
    <3>3. Unit(f) = 2^Fb
      BY <1>1 DEF Unit
    <3>4. QED
      BY <3>1, <3>2, <3>3
  <2>3. 2^(Fb + 1) = 2 * U
    BY <1>1, <2>2, Powers
  <2>4. PICK L \in 0 .. Fb : L = Log2(m) /\ 2^L <= m /\ m < 2^(L + 1)
    <3>1. Log2(m) \in 0 .. ((Fb + 1) - 1) /\ 2^Log2(m) <= m /\ m < 2^(Log2(m) + 1)
      BY <1>1, <2>2, <2>3, LeadingOne
    <3>2. QED
      BY <3>1
  <2>5. L = Fb
    <3>1. SUFFICES ASSUME L + 1 <= Fb PROVE FALSE
      BY <2>4
    <3>2. PICK k, d \in Nat : k = L + 1 /\ d = Fb - k /\ k + d = Fb
      BY <2>4, <3>1
    <3>3. k \in 0 .. MaxPlace /\ d \in 0 .. (MaxPlace - k) /\ MaxPlace \in Nat
      BY <1>1, <3>2, Places
    <3>4. 2^k <= U /\ 2^k \in Nat
      BY <2>2, <3>2, <3>3, Powers
    <3>5. QED
      BY <2>2, <2>4, <3>2, <3>4
  <2>6. PICK e \in Int : e = scale(f, w) /\ e = 2 - Bs - Fb + (E - 1)
    BY <1>1 DEF scale
  <2>7. L + e >= XLen - 1
    BY <1>1, <2>5, <2>6
  <2>8. QED
    BY <2>1, <2>2, <2>4, <2>6, <2>7, Zenon DEF llrint
<1>4. QED
  BY <1>2, <1>3

\* A conversion from an integer gives the nearest floating-point number, and one to an
\* integer the nearest integer where the destination and llrint's int64_t both hold it;
\* the even one in a tie.  Beyond int64_t both long conversions leave 2^(XLen - 1), also
\* where the unsigned destination would hold the nearest integer.  For every width of
\* the formats and of the registers.
THEOREM Conversions == FloatSpec => []ConversionsNearest
<1>1. FloatInv => ConversionsNearest
  <2>1. SUFFICES ASSUME FloatInv, NEW f \in Format
                 PROVE  LET w == Operand(f, 1)
                            fits(lo, hi) == ~isNaN(f, w) /\ ~isInf(f, w) /\ llrint(f, w) \in lo .. hi
                        IN  /\ Done("fcvt_w", f) \/ Done("fcvt_wu", f) => xd = Wrap(int32(xd))
                            /\ Done("fcvt_w", f) /\ fits(-(2^(WLen - 1)), 2^(WLen - 1) - 1) =>
                                 IsNearestInt(f, w, Signed(xd))
                            /\ Done("fcvt_wu", f) /\ fits(0, 2^WLen - 1) => IsNearestInt(f, w, uint32(xd))
                            /\ Done("fcvt_l", f) /\ fits(INT64_MIN + 1, -INT64_MIN - 1) =>
                                 IsNearestInt(f, w, Signed(xd))
                            /\ Done("fcvt_lu", f) /\ fits(0, -INT64_MIN - 1) => IsNearestInt(f, w, xd)
                            /\ (Done("fcvt_l", f) \/ Done("fcvt_lu", f)) /\ BeyondLong(f, w) =>
                                 xd = AddrSpace \div 2
                            /\ Done("w", f) => IsNearestTo(f, int32(xs), Result(f))
                            /\ Done("wu", f) => IsNearestTo(f, xs % 2^WLen, Result(f))
                            /\ Done("l", f) => IsNearestTo(f, Signed(xs), Result(f))
                            /\ Done("lu", f) => IsNearestTo(f, xs, Result(f))
    BY Zenon DEF ConversionsNearest
  <2>2. PICK w \in Pattern(f) : w = Operand(f, 1)
    BY <2>1, Operands
  <2>3. PICK r : r = llrint(f, w)
    OBVIOUS
  <2>4. /\ Done("fcvt_w", f) \/ Done("fcvt_wu", f) => xd = Wrap(int32(r))
        /\ Done("fcvt_l", f) \/ Done("fcvt_lu", f) => xd = Wrap(r)
    <3>1. ASSUME NEW o \in ToOps, Done(o, f) PROVE xd = fcvt_to(f, o, w)
      BY <2>1, <2>2, <3>1, DoneRan DEF Ran
    <3>2. /\ fcvt_to(f, "fcvt_w", w) = Wrap(int32(r)) /\ fcvt_to(f, "fcvt_wu", w) = Wrap(int32(r))
          /\ fcvt_to(f, "fcvt_l", w) = Wrap(r) /\ fcvt_to(f, "fcvt_lu", w) = Wrap(r)
      BY <2>3 DEF fcvt_to
    <3>3. QED
      BY <3>1, <3>2 DEF ToOps
  <2>5. llrint(f, w) \in Int
    <3>1. llrint(f, w) # INT64_MIN /\ ~isNaN(f, w) /\ ~isInf(f, w) => llrint(f, w) \in Int
      BY NearestInt
    <3>2. isNaN(f, w) \/ isInf(f, w) => llrint(f, w) = INT64_MIN
      <4>1. isInf(f, w) => exp(f, w) = EMax(f) /\ ~isZero(f, w)
        BY MagnitudeOrder, Fields DEF isInf, isZero
      <4>2. isNaN(f, w) => exp(f, w) = EMax(f) /\ ~isZero(f, w)
        BY NaNOnly DEF isNaN
      <4>3. QED
        BY <4>1, <4>2, Zenon DEF llrint
    <3>3. INT64_MIN \in Int
      BY Casts
    <3>4. QED
      BY <3>1, <3>2, <3>3
  <2>6. ASSUME Done("fcvt_w", f) \/ Done("fcvt_wu", f) PROVE xd = Wrap(int32(xd))
    BY <2>3, <2>4, <2>5, <2>6, Casts, Zenon
  <2>7. PICK N, H, P \in Int : N = INT64_MIN /\ H = 2^(WLen - 1) /\ P = 2^WLen /\ N < -H /\ P <= -N /\ H >= 0
    <3>1. WLen \in 0 .. MaxPlace
      BY Places DEF Format
    <3>2. 2^WLen \in Int
      BY <3>1, Powers
    <3>3. QED
      BY <3>2, Casts
  <2>8. ASSUME ~isNaN(f, w), ~isInf(f, w), r # INT64_MIN PROVE IsNearestInt(f, w, r)
    BY <2>3, <2>8, NearestInt
  <2>9. ASSUME NEW lo \in Int, NEW hi \in Int, r \in lo .. hi, lo > N PROVE r # INT64_MIN
    BY <2>7, <2>9
  <2>10. /\ r \in (-(2^(WLen - 1))) .. (2^(WLen - 1) - 1) =>
              r # INT64_MIN /\ Signed(Wrap(int32(r))) = r
         /\ r \in 0 .. (2^WLen - 1) => r # INT64_MIN /\ uint32(Wrap(int32(r))) = r
         /\ r \in (INT64_MIN + 1) .. (-INT64_MIN - 1) => r # INT64_MIN /\ Signed(Wrap(r)) = r
         /\ r \in 0 .. (-INT64_MIN - 1) => r # INT64_MIN /\ Wrap(r) = r
    <3>1. /\ -H \in Int /\ H - 1 \in Int /\ -H > N /\ 0 > N /\ N + 1 > N /\ P - 1 \in Int /\ 0 \in Int
          /\ N + 1 \in Int /\ -N - 1 \in Int
      BY <2>7
    <3>2. /\ r \in (-H) .. (H - 1) => r # INT64_MIN
          /\ r \in 0 .. (P - 1) => r # INT64_MIN
          /\ r \in (N + 1) .. (-N - 1) => r # INT64_MIN
          /\ r \in 0 .. (-N - 1) => r # INT64_MIN
      BY <2>9, <3>1, Zenon
    <3>3. QED
      BY <2>7, <3>2, Casts, Zenon
  <2>11. ASSUME NEW o \in FromOps, Done(o, f)
         PROVE  Result(f) = FromInt(f, SourceInt(o, xs)) /\ IsNearestTo(f, SourceInt(o, xs), Result(f))
    <3>1. fd = Put(f, FromInt(f, SourceInt(o, xs)))
      BY <2>1, <2>11, DoneRan DEF Ran
    <3>2. /\ SourceInt(o, xs) \in Int /\ -(2^XLen) < SourceInt(o, xs) /\ SourceInt(o, xs) < 2^XLen
      <4>1. PICK A \in Nat : A = AddrSpace /\ A = 2^XLen /\ A > 1 /\ xs \in Int /\ 0 <= xs /\ xs < A
        BY <2>1, WordAssumption, IeeeAssumption DEF FloatInv, Word
      <4>2. PICK Bs \in Nat : A = Bs + Bs /\ INT64_MIN = -Bs /\ P <= Bs
        <5>1. XLen \in 0 .. MaxPlace /\ XLen > 0
          BY Places DEF Format
        <5>2. PICK Bs \in Nat : A = 2 * Bs
          BY <4>1, <5>1, Powers
        <5>3. A \div 2 = Bs
          BY <5>2
        <5>4. INT64_MIN = -Bs
          BY <4>1, <5>3 DEF INT64_MIN
        <5>5. QED
          BY <2>7, <5>2, <5>4
      <4>3. PICK u \in Int : u = uint32(xs) /\ 0 <= u /\ u < P
        <5>1. P > 0
          <6>1. WLen \in 0 .. MaxPlace
            BY Places DEF Format
          <6>2. QED
            BY <2>7, <6>1, Powers
        <5>2. QED
          BY <2>7, <4>1, <5>1 DEF uint32
      <4>4. int32(xs) = IF 2 * u < P THEN u ELSE u - P
        BY <2>7, <4>3 DEF int32
      <4>5. Signed(xs) = IF 2 * xs < A THEN xs ELSE xs - A
        BY <4>1 DEF Signed
      <4>6. SourceInt(o, xs) \in {int32(xs), u, Signed(xs), xs}
        BY <4>3 DEF SourceInt, FromOps
      <4>7. PICK i \in Int : i = SourceInt(o, xs) /\ -A < i /\ i < A
        <5>1. A > P /\ P >= 0
          BY <4>1, <4>2, <4>3
        <5>2. /\ int32(xs) \in Int /\ -A < int32(xs) /\ int32(xs) < A
              /\ Signed(xs) \in Int /\ -A < Signed(xs) /\ Signed(xs) < A
          BY <4>1, <4>3, <4>4, <4>5, <5>1
        <5>3. -A < u /\ u < A /\ -A < xs
          BY <4>1, <4>3, <5>1
        <5>4. QED
          BY <4>1, <4>6, <5>2, <5>3
      <4>8. QED
        BY <4>1, <4>7
    <3>3. FromInt(f, SourceInt(o, xs)) \in Pattern(f)
          /\ IsNearestTo(f, SourceInt(o, xs), FromInt(f, SourceInt(o, xs)))
      BY <3>2, FromIntNearest
    <3>4. Result(f) = FromInt(f, SourceInt(o, xs))
      BY <3>1, <3>3, Members DEF Result
    <3>5. QED
      BY <3>3, <3>4
  <2>12. /\ SourceInt("w", xs) = int32(xs) /\ SourceInt("wu", xs) = xs % 2^WLen
         /\ SourceInt("l", xs) = Signed(xs) /\ SourceInt("lu", xs) = xs
    BY DEF SourceInt, uint32
  <2>13. /\ Done("w", f) => IsNearestTo(f, int32(xs), Result(f))
         /\ Done("wu", f) => IsNearestTo(f, xs % 2^WLen, Result(f))
         /\ Done("l", f) => IsNearestTo(f, Signed(xs), Result(f))
         /\ Done("lu", f) => IsNearestTo(f, xs, Result(f))
    <3>1. "w" \in FromOps /\ "wu" \in FromOps /\ "l" \in FromOps /\ "lu" \in FromOps
      BY DEF FromOps
    <3>2. QED
      BY <2>11, <2>12, <3>1, Zenon
  <2>14. ASSUME ~isNaN(f, w), ~isInf(f, w)
         PROVE  /\ Done("fcvt_w", f) /\ r \in (-(2^(WLen - 1))) .. (2^(WLen - 1) - 1) =>
                     IsNearestInt(f, w, Signed(xd))
                /\ Done("fcvt_wu", f) /\ r \in 0 .. (2^WLen - 1) => IsNearestInt(f, w, uint32(xd))
                /\ Done("fcvt_l", f) /\ r \in (INT64_MIN + 1) .. (-INT64_MIN - 1) =>
                     IsNearestInt(f, w, Signed(xd))
                /\ Done("fcvt_lu", f) /\ r \in 0 .. (-INT64_MIN - 1) => IsNearestInt(f, w, xd)
    BY <2>4, <2>8, <2>10, <2>14, Zenon
  <2>15. ASSUME Done("fcvt_l", f) \/ Done("fcvt_lu", f), BeyondLong(f, w) PROVE xd = AddrSpace \div 2
    <3>1. r = INT64_MIN
      BY <2>2, <2>3, <2>15, Beyond, Zenon
    <3>2. QED
      BY <2>4, <2>15, <3>1, Casts, Zenon
  <2>16. QED
    BY <2>2, <2>3, <2>6, <2>13, <2>14, <2>15, Zenon
<1>2. QED
  BY <1>1, FloatInvariant, PTL

-----------------------------------------------------------------------------
(* The registers: types.                                                   *)

\* Assigning one member of the union keeps the register a pair of halves.
LEMMA HalvesType ==
  ASSUME NEW w \in Dword, NEW h \in Half
  PROVE  /\ w.lo \in Half /\ w.hi \in Half
         /\ [w EXCEPT !.lo = h] \in Dword
         /\ [w EXCEPT !.lo = h].lo = h
         /\ Filled(h) \in Dword /\ Filled(h).lo = h
BY FpRegsAssumption DEF Dword, Filled

\* The results of the host's operations have the type of their destination.
LEMMA ResultsType ==
  /\ \A a, b, c \in Half : sop[a, b, c] \in Half
  /\ \A u, v, w \in Dword : dop[u, v, w] \in Dword
  /\ \A a, b \in Half : sint[a, b] \in Dword
  /\ \A u, v \in Dword : dint[u, v] \in Dword
  /\ \A u \in Dword : ints[u] \in Half /\ intd[u] \in Dword /\ narrow[u] \in Half
  /\ \A a \in Half : widen[a] \in Dword /\ fill[a] \in Half
BY FpRegsAssumption

\* A write to a register keeps the types.
LEMMA SetFpType ==
  ASSUME TypeOK, NEW rd \in F, NEW w \in Dword, NEW t \in {"s", "d"}, SetFp(rd, w, t)
  PROVE  TypeOK'
BY DEF TypeOK, SetFp

LEMMA SetXType ==
  ASSUME TypeOK, NEW rd \in X, NEW w \in Dword, SetX(rd, w)
  PROVE  TypeOK'
BY DEF TypeOK, SetX

\* The initial registers and variables.
LEMMA InitType == Init => TypeOK
BY FpRegsAssumption DEF Init, TypeOK, Nil, Dword

\* Every handler keeps the types.
LEMMA StepType == TypeOK /\ [Next]_vars => TypeOK'
<1> SUFFICES ASSUME TypeOK, [Next]_vars PROVE TypeOK'
  OBVIOUS
<1>f. ASSUME NEW r \in F PROVE fp[r] \in Dword /\ fp[r].lo \in Half /\ kind[r] \in {"s", "d"}
  BY HalvesType DEF TypeOK, Dword
<1>x. ASSUME NEW r \in X PROVE x[r] \in Dword /\ x[r].lo \in Half
  BY DEF TypeOK, Dword
<1>m. ASSUME NEW a \in DSlots PROVE dm[a] \in Dword /\ kind[a] \in {"s", "d"}
  BY DEF TypeOK
<1>l. ASSUME NEW r \in F, NEW h \in Half PROVE LowHalf(r, h) \in Dword /\ Filled(h) \in Dword
  BY <1>f, HalvesType DEF LowHalf
<1>1. ASSUME NEW rd \in F, NEW a \in WSlots, func_flw(rd, a) PROVE TypeOK'
  <2>1. wm[a] \in Half
    BY DEF TypeOK
  <2> QED
    BY <1>1, <1>l, <2>1, SetFpType DEF func_flw
<1>2. ASSUME NEW rd \in F, NEW a \in WSlots, func_fsw(rd, a) PROVE TypeOK'
  BY <1>2, <1>f DEF func_fsw, TypeOK
<1>3. ASSUME NEW rd \in F, NEW a \in DSlots, func_fld(rd, a) PROVE TypeOK'
  BY <1>3, <1>m, SetFpType DEF func_fld
<1>4. ASSUME NEW rd \in F, NEW a \in DSlots, func_fsd(rd, a) PROVE TypeOK'
  BY <1>4, <1>f DEF func_fsd, TypeOK
<1>5. ASSUME NEW rd \in F, NEW a \in F, NEW b \in F, NEW c \in F, func_single(rd, a, b, c)
      PROVE  TypeOK'
  BY <1>5, <1>f, <1>l, ResultsType, SetFpType DEF func_single
<1>6. ASSUME NEW rd \in F, NEW a \in F, NEW b \in F, NEW c \in F, func_double(rd, a, b, c)
      PROVE  TypeOK'
  BY <1>6, <1>f, ResultsType, SetFpType DEF func_double
<1>7. ASSUME NEW rd \in F, NEW a \in F, NEW b \in F, func_fsgnj_s(rd, a, b) PROVE TypeOK'
  BY <1>7, <1>f, <1>l, ResultsType, SetFpType DEF func_fsgnj_s
<1>8. ASSUME NEW rd \in X, NEW a \in F, NEW b \in F,
             func_single_int(rd, a, b) \/ func_double_int(rd, a, b)
      PROVE  TypeOK'
  BY <1>8, <1>f, ResultsType, SetXType DEF func_single_int, func_double_int
<1>9. ASSUME NEW rd \in F, NEW a \in X,
             func_fcvt_s(rd, a) \/ func_fcvt_d(rd, a) \/ func_fmv_w_x(rd, a) \/ func_fmv_d_x(rd, a)
      PROVE  TypeOK'
  BY <1>9, <1>x, <1>l, ResultsType, SetFpType DEF func_fcvt_s, func_fcvt_d, func_fmv_w_x, func_fmv_d_x
<1>10. ASSUME NEW rd \in F, NEW a \in F, func_fcvt_s_d(rd, a) \/ func_fcvt_d_s(rd, a) PROVE TypeOK'
  BY <1>10, <1>f, <1>l, ResultsType, SetFpType DEF func_fcvt_s_d, func_fcvt_d_s
<1>11. ASSUME NEW rd \in X, NEW a \in F, func_fmv_x_w(rd, a) \/ func_fmv_x_d(rd, a) PROVE TypeOK'
  <2>1. [lo |-> fp[a].lo, hi |-> fill[fp[a].lo]] \in Dword
    BY <1>f, ResultsType DEF Dword
  <2> QED
    BY <1>11, <1>f, <2>1, SetXType DEF func_fmv_x_w, func_fmv_x_d
<1>12. ASSUME NEW rd \in X, NEW w \in Dword, Other(rd, w) PROVE TypeOK'
  BY <1>12, SetXType DEF Other
<1>13. CASE UNCHANGED vars
  BY <1>13 DEF vars, TypeOK
<1> QED
  BY <1>1, <1>2, <1>3, <1>4, <1>5, <1>6, <1>7, <1>8, <1>9, <1>10, <1>11, <1>12, <1>13 DEF Next

\* Every half of every register has 32 bits at all times.
LEMMA TypeInvariant == Spec => []TypeOK
BY InitType, StepType, PTL DEF Spec

-----------------------------------------------------------------------------
(* What the architecture sees.                                             *)

\* A single read from the register is the one in the architecture's box.
LEMMA SingleRead ==
  ASSUME TypeOK, NEW r \in F, kind[r] = "s"
  PROVE  B!Single(r) = fp[r].lo
BY DEF B!Single, ArchFp, Seen, Filled

\* A double is the whole register, and so is what fsd moves.
LEMMA DoubleRead ==
  ASSUME NEW r \in F, kind[r] = "d"
  PROVE  ArchFp[r] = fp[r]
BY DEF ArchFp, Seen

\* The lower half is there whatever the register holds.
LEMMA LowRead ==
  ASSUME NEW r \in F
  PROVE  ArchFp[r].lo = fp[r].lo
BY DEF ArchFp, Seen, Filled

\* A write to a register, boxed if it is a single, whatever its upper half.
LEMMA FpWritten ==
  ASSUME TypeOK, NEW rd \in F, NEW w, NEW t, SetFp(rd, w, t)
  PROVE  B!SetFp(rd, Seen(t, w))
<1>1. ArchFp' = [ArchFp EXCEPT ![rd] = Seen(t, w)]
  BY DEF ArchFp, SetFp, TypeOK, Seen
<1>2. \A a \in DSlots : a # rd /\ kind'[a] = kind[a] /\ dm' = dm
  BY FpRegsAssumption DEF SetFp, TypeOK
<1>3. ArchDm' = ArchDm
  BY <1>2 DEF ArchDm, Seen, Filled
<1> QED
  BY <1>1, <1>3 DEF SetFp, B!SetFp

\* The boxed form of each single-precision write.
LEMMA SingleWritten ==
  ASSUME TypeOK, NEW rd \in F, NEW h \in Half,
         SetFp(rd, LowHalf(rd, h), "s") \/ SetFp(rd, Filled(h), "s")
  PROVE  B!SetFp(rd, B!Boxed(h))
<1>1. fp[rd] \in Dword
  BY DEF TypeOK
<1>2. Seen("s", LowHalf(rd, h)) = B!Boxed(h)
  BY <1>1, HalvesType DEF Seen, Filled, LowHalf, B!Boxed
<1>3. Seen("s", Filled(h)) = B!Boxed(h)
  BY HalvesType DEF Seen, Filled, B!Boxed
<1> QED
  BY <1>2, <1>3, FpWritten

LEMMA DoubleWritten ==
  ASSUME TypeOK, NEW rd \in F, NEW w, SetFp(rd, w, "d")
  PROVE  B!SetFp(rd, w)
<1>1. Seen("d", w) = w
  BY DEF Seen
<1> QED
  BY <1>1, FpWritten

\* Writes to integer registers are seen as they are.
LEMMA XWritten ==
  ASSUME NEW rd \in X, NEW w, SetX(rd, w)
  PROVE  B!SetX(rd, w)
BY DEF SetX, B!SetX, ArchFp, ArchDm, Seen

\* The emulator starts where the architecture does.
LEMMA RefinementInit == Init => B!Init
<1> SUFFICES ASSUME Init PROVE B!Init
  OBVIOUS
<1>1. ArchFp = [r \in F |-> Nil]
  BY DEF Init, ArchFp, Seen
<1>2. ArchDm = [a \in DSlots |-> Nil]
  BY DEF Init, ArchDm, Seen
<1> QED
  BY <1>1, <1>2 DEF Init, Nil, B!Init

\* Every handler is the instruction of the architecture, for the programs that
\* use a register for what they have put in it.
LEMMA RefinementStep == TypeOK /\ [Next]_vars => [B!Next]_(B!avars)
<1> SUFFICES ASSUME TypeOK, [Next]_vars PROVE B!Next \/ UNCHANGED B!avars
  OBVIOUS
<1>f. ASSUME NEW r \in F PROVE fp[r] \in Dword /\ fp[r].lo \in Half
  BY DEF TypeOK, Dword
<1>x. ASSUME NEW r \in X PROVE x[r] \in Dword /\ x[r].lo \in Half
  BY DEF TypeOK, Dword
<1>1. ASSUME NEW rd \in F, NEW a \in WSlots, func_flw(rd, a) PROVE B!Flw(rd, a)
  <2>1. wm[a] \in Half
    BY DEF TypeOK
  <2> QED
    BY <1>1, <2>1, SingleWritten DEF func_flw, B!Flw
<1>2. ASSUME NEW rd \in F, NEW a \in WSlots, func_fsw(rd, a) PROVE B!Fsw(rd, a)
  <2>1. ArchFp' = ArchFp /\ ArchDm' = ArchDm
    BY <1>2 DEF func_fsw, ArchFp, ArchDm, Seen
  <2> QED
    BY <1>2, <2>1, LowRead DEF func_fsw, B!Fsw
<1>3. ASSUME NEW rd \in F, NEW a \in DSlots, func_fld(rd, a) PROVE B!Fld(rd, a)
  <2>1. ArchDm[a] = Seen(kind[a], dm[a])
    BY DEF ArchDm
  <2> QED
    BY <1>3, <2>1, FpWritten DEF func_fld, B!Fld
<1>4. ASSUME NEW rd \in F, NEW a \in DSlots, func_fsd(rd, a) PROVE B!Fsd(rd, a)
  <2>1. \A r \in F : r # a /\ kind'[r] = kind[r] /\ fp' = fp
    BY <1>4, FpRegsAssumption DEF func_fsd, TypeOK
  <2>2. ArchFp' = ArchFp
    BY <2>1 DEF ArchFp, Seen, Filled
  <2>3. ArchDm' = [ArchDm EXCEPT ![a] = ArchFp[rd]]
    BY <1>4 DEF func_fsd, ArchDm, ArchFp, Seen, TypeOK
  <2> QED
    BY <1>4, <2>2, <2>3 DEF func_fsd, B!Fsd
<1>5. ASSUME NEW rd \in F, NEW a \in F, NEW b \in F, NEW c \in F, func_single(rd, a, b, c)
      PROVE  B!SingleOp(rd, a, b, c)
  <2>1. sop[fp[a].lo, fp[b].lo, fp[c].lo] = sop[B!Single(a), B!Single(b), B!Single(c)]
    BY <1>5, SingleRead DEF func_single
  <2>2. sop[fp[a].lo, fp[b].lo, fp[c].lo] \in Half
    BY <1>f, ResultsType
  <2> QED
    BY <1>5, <2>1, <2>2, SingleWritten DEF func_single, B!SingleOp
<1>6. ASSUME NEW rd \in F, NEW a \in F, NEW b \in F, NEW c \in F, func_double(rd, a, b, c)
      PROVE  B!DoubleOp(rd, a, b, c)
  BY <1>6, DoubleRead, DoubleWritten DEF func_double, B!DoubleOp
<1>7. ASSUME NEW rd \in F, NEW a \in F, NEW b \in F, func_fsgnj_s(rd, a, b)
      PROVE  B!SingleOp(rd, a, b, b)
  <2>1. sop[fp[a].lo, fp[b].lo, fp[b].lo] = sop[B!Single(a), B!Single(b), B!Single(b)]
    BY <1>7, SingleRead DEF func_fsgnj_s
  <2>2. sop[fp[a].lo, fp[b].lo, fp[b].lo] \in Half
    BY <1>f, ResultsType
  <2> QED
    BY <1>7, <2>1, <2>2, SingleWritten DEF func_fsgnj_s, B!SingleOp
<1>8. ASSUME NEW rd \in X, NEW a \in F, NEW b \in F, func_single_int(rd, a, b)
      PROVE  B!SingleToInt(rd, a, b)
  BY <1>8, SingleRead, XWritten DEF func_single_int, B!SingleToInt
<1>9. ASSUME NEW rd \in X, NEW a \in F, NEW b \in F, func_double_int(rd, a, b)
      PROVE  B!DoubleToInt(rd, a, b)
  BY <1>9, DoubleRead, XWritten DEF func_double_int, B!DoubleToInt
<1>10. ASSUME NEW rd \in F, NEW a \in X, func_fcvt_s(rd, a) PROVE B!IntToSingle(rd, a)
  BY <1>10, <1>x, ResultsType, SingleWritten DEF func_fcvt_s, B!IntToSingle
<1>11. ASSUME NEW rd \in F, NEW a \in X, func_fcvt_d(rd, a) PROVE B!IntToDouble(rd, a)
  BY <1>11, DoubleWritten DEF func_fcvt_d, B!IntToDouble
<1>12. ASSUME NEW rd \in F, NEW a \in X, func_fmv_w_x(rd, a) PROVE B!MoveWX(rd, a)
  BY <1>12, <1>x, SingleWritten DEF func_fmv_w_x, B!MoveWX
<1>13. ASSUME NEW rd \in F, NEW a \in X, func_fmv_d_x(rd, a) PROVE B!MoveDX(rd, a)
  BY <1>13, DoubleWritten DEF func_fmv_d_x, B!MoveDX
<1>14. ASSUME NEW rd \in F, NEW a \in F, func_fcvt_s_d(rd, a) PROVE B!Narrow(rd, a)
  BY <1>14, <1>f, ResultsType, DoubleRead, SingleWritten DEF func_fcvt_s_d, B!Narrow
<1>15. ASSUME NEW rd \in F, NEW a \in F, func_fcvt_d_s(rd, a) PROVE B!Widen(rd, a)
  BY <1>15, SingleRead, DoubleWritten DEF func_fcvt_d_s, B!Widen
<1>16. ASSUME NEW rd \in X, NEW a \in F, func_fmv_x_w(rd, a) PROVE B!MoveXW(rd, a)
  BY <1>16, LowRead, XWritten DEF func_fmv_x_w, B!MoveXW, B!Extend
<1>17. ASSUME NEW rd \in X, NEW a \in F, func_fmv_x_d(rd, a) PROVE B!MoveXD(rd, a)
  BY <1>17, DoubleRead, XWritten DEF func_fmv_x_d, B!MoveXD
<1>18. ASSUME NEW rd \in X, NEW w \in Dword, Other(rd, w) PROVE B!Other
  <2>1. w \in B!Dword
    BY DEF Dword, B!Dword
  <2> QED
    BY <1>18, <2>1, XWritten DEF Other, B!Other
<1>19. CASE UNCHANGED vars
  BY <1>19 DEF vars, B!avars, ArchFp, ArchDm, Seen
<1>20. CASE \E rd \in F, a \in WSlots : func_flw(rd, a) \/ func_fsw(rd, a)
  BY <1>20, <1>1, <1>2, Zenon DEF B!Next
<1>21. CASE \E rd \in F, a \in DSlots : func_fld(rd, a) \/ func_fsd(rd, a)
  BY <1>21, <1>3, <1>4, Zenon DEF B!Next
<1>22. CASE \E rd, a, b, c \in F : func_single(rd, a, b, c) \/ func_double(rd, a, b, c)
  <2>1. PICK rd \in F, a \in F, b \in F, c \in F : func_single(rd, a, b, c) \/ func_double(rd, a, b, c)
    BY <1>22, Zenon
  <2>2. B!SingleOp(rd, a, b, c) \/ B!DoubleOp(rd, a, b, c)
    BY <2>1, <1>5, <1>6
  <2>3. \E r, i, j, k \in F : B!SingleOp(r, i, j, k) \/ B!DoubleOp(r, i, j, k)
    BY <2>2, Zenon
  <2> QED
    BY <2>3, Zenon DEF B!Next
<1>23. CASE \E rd, a, b \in F : func_fsgnj_s(rd, a, b)
  BY <1>23, <1>7, Zenon DEF B!Next
<1>24. CASE \E rd \in X, a, b \in F : func_single_int(rd, a, b) \/ func_double_int(rd, a, b)
  BY <1>24, <1>8, <1>9, Zenon DEF B!Next
<1>25. CASE \E rd \in F, a \in X :
              func_fcvt_s(rd, a) \/ func_fcvt_d(rd, a) \/ func_fmv_w_x(rd, a) \/ func_fmv_d_x(rd, a)
  BY <1>25, <1>10, <1>11, <1>12, <1>13, Zenon DEF B!Next
<1>26. CASE \E rd, a \in F : func_fcvt_s_d(rd, a) \/ func_fcvt_d_s(rd, a)
  BY <1>26, <1>14, <1>15, Zenon DEF B!Next
<1>27. CASE \E rd \in X, a \in F : func_fmv_x_w(rd, a) \/ func_fmv_x_d(rd, a)
  BY <1>27, <1>16, <1>17, Zenon DEF B!Next
<1>28. CASE \E rd \in X, w \in Dword : Other(rd, w)
  BY <1>28, <1>18, Zenon DEF B!Next
<1> QED
  BY <1>19, <1>20, <1>21, <1>22, <1>23, <1>24, <1>25, <1>26, <1>27, <1>28, Zenon DEF Next

\* For every program that uses a register for the type it has last put in it, the
\* floating-point registers behave as those of the architecture: the stale upper
\* halves that func_fadd_s and its kind leave are never observed.
THEOREM RegistersRefineBoxed == Spec => RefinesBoxed
BY RefinementInit, RefinementStep, TypeInvariant, PTL DEF Spec, RefinesBoxed, B!Safety
=============================================================================
