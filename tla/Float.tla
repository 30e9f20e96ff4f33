------------------------------- MODULE Float -------------------------------
(***************************************************************************)
(* The floating-point handlers of interp.c, one at a time: what they read  *)
(* from fp_regs and gp_regs, compute on the host and write back.  The      *)
(* loads and stores are in FpRegs.                                         *)
(*                                                                         *)
(* The union members f and w of a register are its lower WLen bits, d and  *)
(* v all of it.  No handler looks at the rounding mode of the instruction. *)
(***************************************************************************)
EXTENDS Ieee

CONSTANTS Triples,    \* contents of fp_regs[rs1], fp_regs[rs2] and fp_regs[rs3]
          Ints,       \* contents of gp_regs[rs1]
          Stale       \* what fp_regs[rd] holds before the instruction

ASSUME FloatAssumption ==
  Triples \subseteq Word \X Word \X Word /\ Ints \subseteq Word /\ Stale \in Word

VARIABLES rs,    \* the three floating-point source registers
          xs,    \* the integer source register
          op,    \* the handler that has run, with its format
          fd,    \* fp_regs[rd]
          xd     \* gp_regs[rd]

floatVars == <<rs, xs, op, fd, xd>>

-----------------------------------------------------------------------------
(* interp_util.h                                                           *)

\* Mutant: the quiet bit means signalling, as on some processors.
isSigNaN_Inverted(f, w) == isNaN(f, w) /\ frac(f, w) >= QuietBit(f)

\* isSigNaNF32UI and isSigNaNF64UI
isSigNaN(f, w) == isNaN(f, w) /\ frac(f, w) < QuietBit(f)

Bit(b, n) == IF b THEN 2^n ELSE 0

\* f32_classify and f64_classify
classify(f, w) ==
  LET infOrNaN == exp(f, w) = EMax(f)
      subnormalOrZero == exp(f, w) = 0
      neg == sign(f, w) = 1
      fracZero == frac(f, w) = 0
  IN  Bit(neg /\ infOrNaN /\ fracZero, 0)
        + Bit(neg /\ ~infOrNaN /\ ~subnormalOrZero, 1)
        + Bit(neg /\ subnormalOrZero /\ ~fracZero, 2)
        + Bit(neg /\ subnormalOrZero /\ fracZero, 3)
        + Bit(~neg /\ infOrNaN /\ fracZero, 7)
        + Bit(~neg /\ ~infOrNaN /\ ~subnormalOrZero, 6)
        + Bit(~neg /\ subnormalOrZero /\ ~fracZero, 5)
        + Bit(~neg /\ subnormalOrZero /\ fracZero, 4)
        + Bit(isNaN(f, w) /\ isSigNaN(f, w), 8)
        + Bit(isNaN(f, w) /\ ~isSigNaN(f, w), 9)

\* Mutant: n is looked at before x.
fsgnj_NFirst(f, a, b, n, xor) ==
  LET v == IF n THEN 1 ELSE IF xor THEN 1 - sign(f, a) ELSE 0
  IN  Magnitude(f, a) + Signum(f, (v + sign(f, b)) % 2)

\* fsgnj32 and fsgnj64
fsgnj(f, a, b, n, xor) ==
  LET v == IF xor THEN sign(f, a) ELSE IF n THEN 1 ELSE 0
  IN  Magnitude(f, a) + Signum(f, (v + sign(f, b)) % 2)

-----------------------------------------------------------------------------
(* What the handlers compute.                                              *)

MulAddOps == {"fmadd", "fmsub", "fnmsub", "fnmadd"}

\* Mutant: fnmadd negates the sum.
muladd_NegatedSum(f, o, a, b, c) ==
  UNION { CASE o = "fmadd" -> Plus(f, p, c)
            [] o = "fmsub" -> Minus(f, p, c)
            [] o = "fnmsub" -> Plus(f, Negative(f, p), c)
            [] o = "fnmadd" -> { Negative(f, s) : s \in Plus(f, p, c) } : p \in Times(f, a, b) }

\* Mutant: rs3 is added to rs1 before the multiplication.
muladd_Factored(f, o, a, b, c) ==
  UNION { Times(f, s, b) : s \in CASE o = "fmadd" -> Plus(f, a, c)
                                    [] o = "fmsub" -> Minus(f, a, c)
                                    [] o = "fnmsub" -> Plus(f, Negative(f, a), c)
                                    [] o = "fnmadd" -> Minus(f, Negative(f, a), c) }

\* The product is rounded before the sum is.
muladd(f, o, a, b, c) ==
  UNION { CASE o = "fmadd" -> Plus(f, p, c)
            [] o = "fmsub" -> Minus(f, p, c)
            [] o = "fnmsub" -> Plus(f, Negative(f, p), c)
            [] o = "fnmadd" -> Minus(f, Negative(f, p), c) : p \in Times(f, a, b) }

ArithOps == {"fadd", "fsub", "fmul", "fdiv", "fsqrt", "fmin", "fmax"}

\* Mutant: fmax keeps the comparison of fmin.
arith_SameTest(f, o, a, b) ==
  CASE o = "fadd" -> Plus(f, a, b)
    [] o = "fsub" -> Minus(f, a, b)
    [] o = "fmul" -> Times(f, a, b)
    [] o = "fdiv" -> Over(f, a, b)
    [] o = "fsqrt" -> Sqrt(f, a)
    [] o \in {"fmin", "fmax"} -> {IF Less(f, a, b) THEN a ELSE b}

arith(f, o, a, b) ==
  CASE o = "fadd" -> Plus(f, a, b)
    [] o = "fsub" -> Minus(f, a, b)
    [] o = "fmul" -> Times(f, a, b)
    [] o = "fdiv" -> Over(f, a, b)
    [] o = "fsqrt" -> Sqrt(f, a)
    [] o = "fmin" -> {IF Less(f, a, b) THEN a ELSE b}
    [] o = "fmax" -> {IF Less(f, b, a) THEN a ELSE b}

\* The arguments n and x of the sign injections.
SignOps == [fsgnj |-> <<FALSE, FALSE>>, fsgnjn |-> <<TRUE, FALSE>>, fsgnjx |-> <<FALSE, TRUE>>]

\* To an integer: both 32-bit conversions end in (int64_t)(int32_t).
fcvt_to(f, o, w) ==
  CASE o \in {"fcvt_w", "fcvt_wu"} -> Wrap(int32(llrint(f, w)))
    [] o \in {"fcvt_l", "fcvt_lu"} -> Wrap(llrint(f, w))

ToOps == {"fcvt_w", "fcvt_wu", "fcvt_l", "fcvt_lu"}

\* Mutant: the long conversions both start from an int64_t.
SourceInt_Signed(o, v) ==
  CASE o = "w" -> int32(v)
    [] o = "wu" -> uint32(v)
    [] o \in {"l", "lu"} -> Signed(v)

\* From an integer: the type that gp_regs[rs1] is cast to.
SourceInt(o, v) ==
  CASE o = "w" -> int32(v)
    [] o = "wu" -> uint32(v)
    [] o = "l" -> Signed(v)
    [] o = "lu" -> v

FromOps == {"w", "wu", "l", "lu"}

CompareOps == {"feq", "flt", "fle"}

compare(f, o, a, b) ==
  Bit(CASE o = "feq" -> Equal(f, a, b)
        [] o = "flt" -> Less(f, a, b)
        [] o = "fle" -> Less(f, a, b) \/ Equal(f, a, b), 0)

-----------------------------------------------------------------------------
(* The handlers.  Single-precision operands are members f or w of the      *)
(* registers.                                                              *)

Member(f, w) == IF f = "s" THEN uint32(w) ELSE w
Operand(f, i) == Member(f, rs[i])

\* ... | ((uint64_t)-1 << 32)
Boxed(v) == (2^WLen - 1) * 2^WLen + v

\* Assigning f or w leaves the upper half of the register.
Assigned(f, v) == IF f = "s" THEN (fd - uint32(fd)) + v ELSE v

Ready == op = <<"none", "s">>

Writes(o, f, fp, gp) ==
  /\ op' = <<o, f>> /\ fd' = fp /\ xd' = gp
  /\ UNCHANGED <<rs, xs>>

MulAdd(f) ==
  /\ Ready
  /\ \E o \in MulAddOps : \E v \in muladd(f, o, Operand(f, 1), Operand(f, 2), Operand(f, 3)) :
       Writes(o, f, Assigned(f, v), xd)

Arith(f) ==
  /\ Ready
  /\ \E o \in ArithOps : \E v \in arith(f, o, Operand(f, 1), Operand(f, 2)) :
       Writes(o, f, Assigned(f, v), xd)

SignInject(f) ==
  /\ Ready
  /\ \E o \in DOMAIN SignOps :
       LET v == fsgnj(f, Operand(f, 1), Operand(f, 2), SignOps[o][1], SignOps[o][2])
       IN  Writes(o, f, IF f = "s" THEN Boxed(v) ELSE v, xd)

FcvtTo(f) == Ready /\ \E o \in ToOps : Writes(o, f, fd, fcvt_to(f, o, Operand(f, 1)))

FcvtFrom(f) ==
  Ready /\ \E o \in FromOps : Writes(o, f, Assigned(f, FromInt(f, SourceInt(o, xs))), xd)

Fmv(f) ==
  /\ Ready
  /\ \/ Writes("fmv_x", f, fd, IF f = "s" THEN Wrap(int32(rs[1])) ELSE rs[1])
     \/ Writes("fmv", f, Assigned(f, Member(f, xs)), xd)

Compare(f) ==
  Ready /\ \E o \in CompareOps : Writes(o, f, fd, compare(f, o, Operand(f, 1), Operand(f, 2)))

Fclass(f) == Ready /\ Writes("fclass", f, fd, classify(f, Operand(f, 1)))

\* fcvt_s_d and fcvt_d_s, named by the format they write.
FcvtFormat ==
  /\ Ready
  /\ \/ Writes("fcvt", "s", Assigned("s", Convert("d", "s", rs[1])), xd)
     \/ Writes("fcvt", "d", Convert("s", "d", Operand("s", 1)), xd)

Returned == ~Ready /\ UNCHANGED floatVars

FloatInit ==
  /\ \/ rs \in Triples /\ xs = 0
     \/ rs = <<0, 0, 0>> /\ xs \in Ints
  /\ op = <<"none", "s">> /\ fd = Stale /\ xd = 0

FloatNext ==
  \/ \E f \in Format : MulAdd(f) \/ Arith(f) \/ SignInject(f) \/ FcvtTo(f) \/ FcvtFrom(f)
                       \/ Fmv(f) \/ Compare(f) \/ Fclass(f)
  \/ FcvtFormat
  \/ Returned

FloatSpec == FloatInit /\ [][FloatNext]_floatVars

-----------------------------------------------------------------------------
(* Properties.                                                             *)

Done(o, f) == op = <<o, f>>
Result(f) == Member(f, fd)

\* The class of a value is one bit, and its place follows the order of the
\* patterns: subnormals between zero and the normal numbers, infinity above
\* these, then signalling and quiet NaNs.
ClassAgrees ==
  \A f \in Format : Done("fclass", f) =>
    LET w == Operand(f, 1)
        m == Magnitude(f, w)
        place == IF m = 0 THEN 4 ELSE IF m < 2^FracBits[f] THEN 5
                 ELSE IF m < Inf(f) THEN 6 ELSE 7
    IN  xd = IF m > Inf(f) THEN 2^(IF m - Inf(f) < QuietBit(f) THEN 8 ELSE 9)
             ELSE 2^(IF sign(f, w) = 1 THEN 7 - place ELSE place)

\* A sign injection with equal operands is a move, a negation or the absolute
\* value, NaNs and zeros included; with any operands it changes the sign only, and
\* a single-precision result is boxed.
SignInjection ==
  \A f \in Format :
    LET a == Operand(f, 1)
        b == Operand(f, 2)
        same(s) == Magnitude(f, Result(f)) = Magnitude(f, a) /\ sign(f, Result(f)) = s
    IN  /\ Done("fsgnj", f) => same(sign(f, b))
        /\ Done("fsgnjn", f) => same(1 - sign(f, b))
        /\ Done("fsgnjx", f) => same(IF sign(f, a) = sign(f, b) THEN 0 ELSE 1)
        /\ op[1] \in DOMAIN SignOps /\ f = "s" /\ op[2] = f => fd = Boxed(Result(f))

\* n is the integer nearest to the finite pattern w, and even in a tie.
IsNearestInt(f, w, n) ==
  LET m == SignedMant(f, w)
      e == scale(f, w)
      d == n * 2^(-e) - m
  IN  IF e >= 0 THEN n = m * 2^e
      ELSE IF -e > FracBits[f] + 2 THEN n = 0
      ELSE 2 * d <= 2^(-e) /\ -2 * d <= 2^(-e) /\ (2 * d \in {2^(-e), -(2^(-e))} => n % 2 = 0)

\* No pattern of format f is nearer to the integer i than w; Unit brings the two
\* formats' integers to one scale.
IsNearestTo(f, i, w) ==
  LET Unit == 2^(FracBits["d"] + 1)
      Val(u) == IF isZero(f, u) THEN 0 ELSE (SignedMant(f, u) * 2^(scale(f, u) + FracBits["d"] + 1))
      Far(u) == IF Val(u) < i * Unit THEN i * Unit - Val(u) ELSE Val(u) - i * Unit
  IN  IF i = 0 THEN w = 0
      ELSE \A u \in {w - 1, w + 1} :
             Far(w) < Far(u) \/ (Far(w) = Far(u) /\ frac(f, w) % 2 = 0)

\* The magnitude of w is 2^(XLen - 1) or more, or w is an infinity or a NaN.
BeyondLong(f, w) == exp(f, w) >= 2^(ExpBits[f] - 1) + XLen - 2

\* Conversions round to nearest even both ways.  To an integer: where the destination
\* and the int64_t of llrint both hold the result, so fcvt_lu up to 2^63 - 1 and no
\* further; from 2^63 on, and with an infinity or a NaN, both long conversions leave
\* 2^63, the bits of INT64_MIN, also where a uint64_t would hold the nearest integer.
\* From an integer: every integer of the four types.  A 32-bit result is
\* sign-extended, the unsigned one too, as the architecture keeps all of them.
ConversionsNearest ==
  \A f \in Format :
    LET w == Operand(f, 1)
        fits(lo, hi) == ~isNaN(f, w) /\ ~isInf(f, w) /\ llrint(f, w) \in lo .. hi
    IN  /\ Done("fcvt_w", f) \/ Done("fcvt_wu", f) => xd = Wrap(int32(xd))
        /\ Done("fcvt_w", f) /\ fits(-(2^(WLen - 1)), 2^(WLen - 1) - 1) => IsNearestInt(f, w, Signed(xd))
        /\ Done("fcvt_wu", f) /\ fits(0, 2^WLen - 1) => IsNearestInt(f, w, uint32(xd))
        /\ Done("fcvt_l", f) /\ fits(INT64_MIN + 1, -INT64_MIN - 1) => IsNearestInt(f, w, Signed(xd))
        /\ Done("fcvt_lu", f) /\ fits(0, -INT64_MIN - 1) => IsNearestInt(f, w, xd)
        /\ (Done("fcvt_l", f) \/ Done("fcvt_lu", f)) /\ BeyondLong(f, w) => xd = AddrSpace \div 2
        /\ Done("w", f) => IsNearestTo(f, int32(xs), Result(f))
        /\ Done("wu", f) => IsNearestTo(f, xs % 2^WLen, Result(f))
        /\ Done("l", f) => IsNearestTo(f, Signed(xs), Result(f))
        /\ Done("lu", f) => IsNearestTo(f, xs, Result(f))

\* The minimum and the maximum of two ordered numbers are these numbers, in the
\* order that fle reports; with a NaN both handlers return rs2.
MinMaxOrdered ==
  \A f \in Format :
    LET a == Operand(f, 1)
        b == Operand(f, 2)
        r == Result(f)
    IN  /\ Done("fmin", f) /\ ~Unordered(f, a, b) => compare(f, "fle", r, a) = 1 /\ compare(f, "fle", r, b) = 1
        /\ Done("fmax", f) /\ ~Unordered(f, a, b) => compare(f, "fle", a, r) = 1 /\ compare(f, "fle", b, r) = 1
        /\ op[1] \in {"fmin", "fmax"} /\ op[2] = f =>
             r \in {a, b} /\ (Unordered(f, a, b) => r = b)

\* The four multiply-add handlers compute (+|-)(rs1 * rs2) (+|-) rs3 with the signs of
\* the RISC-V manual: each is fmadd with the sign of rs1, of rs3 or of both
\* changed, to the last bit and the sign of a zero.
MulAddSigned ==
  \A f \in Format :
    LET a == Operand(f, 1)
        b == Operand(f, 2)
        c == Operand(f, 3)
        flip(w) == Negative(f, w)
    IN  ~isNaN(f, Result(f)) =>
          /\ Done("fmsub", f) => Result(f) \in muladd(f, "fmadd", a, b, flip(c))
          /\ Done("fnmsub", f) => Result(f) \in muladd(f, "fmadd", flip(a), b, c)
          /\ Done("fnmadd", f) => Result(f) \in muladd(f, "fmadd", flip(a), b, flip(c))

\* The handlers round the product and then the sum, where RISC-V rounds the exact sum
\* once; the two agree to the last bit whenever the product is exact.  (For the
\* single-precision handlers; the terms are taken near each other to keep the
\* integers small.)
FusedWhenExact ==
  LET a == Operand("s", 1)
      b == Operand("s", 2)
      c == Operand("s", 3)
      ep == scale("s", a) + scale("s", b)
      ec == scale("s", c)
      e == IF ep < ec THEN ep ELSE ec
      near == ep - e <= 12 /\ ec - e <= 12 /\ \A w \in {a, b, c} : exp("s", w) # EMax("s")
      m == mant("s", a) * mant("s", b)
      p == Round("s", 0, m, ep)
      exact == IF scale("s", p) <= ep THEN mant("s", p) = m * 2^(ep - scale("s", p))
               ELSE m = mant("s", p) * 2^(scale("s", p) - ep)
      product == SignedMant("s", a) * SignedMant("s", b) * 2^(ep - e)
      addend == SignedMant("s", c) * 2^(ec - e)
      sum == CASE op[1] = "fmadd" -> product + addend
               [] op[1] = "fmsub" -> product - addend
               [] op[1] = "fnmsub" -> addend - product
               [] op[1] = "fnmadd" -> -product - addend
  IN  op[1] \in MulAddOps /\ op[2] = "s" /\ near =>
        (exact /\ sum # 0 =>
           Result("s") = IF sum < 0 THEN Round("s", 1, -sum, e) ELSE Round("s", 0, sum, e))
=============================================================================
