--------------------------------- MODULE Alu ---------------------------------
(***************************************************************************)
(* The integer handlers of interp.c: what they compute from rs1 and rs2,   *)
(* or from rs1 and the sign-extended immediate, with the conversions that  *)
(* the C expressions make.                                                 *)
(*                                                                         *)
(* uint64_t has XLen bits and uint32_t WLen; the handlers only rely on the *)
(* one being twice as wide as the other.  The masks 0x3f and 0x1f are the  *)
(* remainders modulo XLen and WLen.                                        *)
(***************************************************************************)
EXTENDS Word

CONSTANTS XLen, WLen,   \* 64 and 32 in the code
          Values      \* the register values

ASSUME AluAssumption ==
  /\ WLen \in Nat \ {0} /\ XLen = 2 * WLen /\ AddrSpace = 2^XLen
  /\ 2^WLen % WLen = 0      \* 32 is a power of two
  /\ Values \subseteq Word

\* The facts of exponentiation that the proofs use.
ASSUME PowerAssumption ==
  /\ AddrSpace = 2^WLen * 2^WLen /\ 2^WLen % 2 = 0
  /\ \A k \in 0 .. XLen : 2^k \in Nat /\ 2^k > 0
  /\ 2^0 = 1 /\ \A k \in 1 .. XLen : 2^k = 2 * 2^(k - 1)
  /\ \A k, n \in 0 .. XLen : k + n <= XLen => 2^(k + n) = 2^k * 2^n

VARIABLES rs1, rs2, op, rd,
          ctl               \* "ready", "done" or "crashed"

vars == <<rs1, rs2, op, rd, ctl>>

UINT64_MAX == AddrSpace - 1
INT64_MIN == AddrSpace \div 2      \* as a uint64_t

\* (uint32_t)v and (int32_t)v
uint32(v) == v % 2^WLen
int32(v) == IF 2 * uint32(v) < 2^WLen THEN uint32(v) ELSE uint32(v) - 2^WLen

\* Division in C truncates towards zero; by zero it raises SIGFPE.
Truncated(a, b) ==
  LET q == (IF a < 0 THEN -a ELSE a) \div (IF b < 0 THEN -b ELSE b)
  IN  IF (a < 0) # (b < 0) THEN -q ELSE q
Rest(a, b) == a - b * Truncated(a, b)

Crash == -1

Places == 0 .. (XLen - 1)
BitOf(a, k) == (a \div 2^k) % 2

\* The number whose bits are given.
Number(bit) ==
  LET upto[n \in 0 .. XLen] == IF n = 0 THEN 0 ELSE upto[n - 1] + bit[n - 1] * 2^(n - 1)
  IN  upto[XLen]

And(a, b) == Number([k \in Places |-> BitOf(a, k) * BitOf(b, k)])
Or(a, b) == Number([k \in Places |-> IF BitOf(a, k) + BitOf(b, k) = 0 THEN 0 ELSE 1])
Xor(a, b) == Number([k \in Places |-> (BitOf(a, k) + BitOf(b, k)) % 2])

-----------------------------------------------------------------------------
(* The handlers.                                                           *)

Basic == {"add", "sub", "sll", "slt", "sltu", "xor", "srl", "sra", "or", "and"}

Sll(a, n) == Wrap(a * 2^n)
Srl(a, n) == a \div 2^n

\* Mutant: rs1 is not cast to int64_t, and zeroes are shifted in.
Sra_NoCast(a, n) == a \div 2^n

Sra(a, n) == Wrap(Signed(a) \div 2^n)

func_basic(o, a, b) ==
  CASE o = "add" -> Wrap(a + b)
    [] o = "sub" -> Wrap(a - b)
    [] o = "sll" -> Sll(a, b % XLen)
    [] o = "slt" -> IF Signed(a) < Signed(b) THEN 1 ELSE 0
    [] o = "sltu" -> IF a < b THEN 1 ELSE 0
    [] o = "xor" -> Xor(a, b)
    [] o = "srl" -> Srl(a, b % XLen)
    [] o = "sra" -> Sra(a, b % XLen)
    [] o = "or" -> Or(a, b)
    [] o = "and" -> And(a, b)

\* Mutant: the immediate is compared as a signed number.
func_sltiu_Signed(a, imm) == IF Signed(a) < imm THEN 1 ELSE 0

func_sltiu(a, imm) == IF a < Wrap(imm) THEN 1 ELSE 0

Immediate == {"addi", "slli", "slti", "sltiu", "xori", "srli", "srai", "ori", "andi",
              "addiw", "slliw", "srliw", "sraiw"}

\* The operations with an immediate, an int64_t.  A bitwise operator and a mask
\* see its two's complement form.
func_imm(o, a, imm) ==
  CASE o = "addi" -> Wrap(a + imm)
    [] o = "slli" -> Sll(a, Wrap(imm) % XLen)
    [] o = "slti" -> IF Signed(a) < imm THEN 1 ELSE 0
    [] o = "sltiu" -> func_sltiu(a, imm)
    [] o = "xori" -> Xor(a, Wrap(imm))
    [] o = "srli" -> Srl(a, Wrap(imm) % XLen)
    [] o = "srai" -> Sra(a, Wrap(imm) % XLen)
    [] o = "ori" -> Or(a, Wrap(imm))
    [] o = "andi" -> And(a, Wrap(imm))
    [] o = "addiw" -> Wrap(int32(a + imm))
    [] o = "slliw" -> Wrap(int32(a * 2^(Wrap(imm) % WLen)))
    [] o = "srliw" -> Wrap(int32(Srl(uint32(a), Wrap(imm) % WLen)))
    [] o = "sraiw" -> Wrap(int32(a) \div 2^(Wrap(imm) % WLen))

\* Mutant: the shift is made in 64 bits, as for srl.
func_word_WideShift(o, a, b) ==
  Wrap(CASE o = "addw" -> int32(a + b)
         [] o = "subw" -> int32(a - b)
         [] o = "mulw" -> int32(a * b)
         [] o = "sllw" -> int32(a * 2^(b % WLen))
         [] o = "srlw" -> int32(Srl(a, b % WLen))
         [] o = "sraw" -> int32(int32(a) \div 2^(b % WLen)))

\* The operations on the lower half, sign-extended.
WordOps == {"addw", "subw", "mulw", "sllw", "srlw", "sraw"}

func_word(o, a, b) ==
  Wrap(CASE o = "addw" -> int32(a + b)
         [] o = "subw" -> int32(a - b)
         [] o = "mulw" -> int32(a * b)
         [] o = "sllw" -> int32(a * 2^(b % WLen))
         [] o = "srlw" -> int32(Srl(uint32(a), b % WLen))
         [] o = "sraw" -> int32(int32(a) \div 2^(b % WLen)))

\* Mutant: the carry out of the middle sum is dropped.
mulhu_NoCarry(a, b) ==
  LET lo(v) == v % 2^WLen
      hi(v) == Srl(v, WLen)
      t1 == Wrap(hi(a) * lo(b) + hi(lo(a) * lo(b)))
      t3 == Wrap(hi(a) * hi(b) + hi(t1))
  IN  Wrap(hi(t3) * 2^WLen) + lo(t3)

\* The high half of the product, from the four products of the halves.  The two
\* operands of the last | have no bit in common.
mulhu(a, b) ==
  LET lo(v) == v % 2^WLen
      hi(v) == Srl(v, WLen)
      t1 == Wrap(hi(a) * lo(b) + hi(lo(a) * lo(b)))
      t2 == Wrap(lo(a) * hi(b) + lo(t1))
      t3 == Wrap(hi(a) * hi(b) + hi(t1) + hi(t2))
  IN  Wrap(hi(t3) * 2^WLen) + lo(t3)

\* negate ? ~res + (a * b == 0) : res
Negated(negate, res, low) ==
  IF negate THEN Wrap(UINT64_MAX - res + (IF low = 0 THEN 1 ELSE 0)) ELSE res

\* |a| as a uint64_t.  The negation of INT64_MIN and the product of mulh are
\* signed overflows; the compiled code wraps around.
Magnitude(a) == IF Signed(a) < 0 THEN Wrap(-a) ELSE a

mulh(a, b) ==
  Negated((Signed(a) < 0) # (Signed(b) < 0), mulhu(Magnitude(a), Magnitude(b)), Wrap(a * b))

mulhsu(a, b) == Negated(Signed(a) < 0, mulhu(Magnitude(a), b), Wrap(a * b))

MulOps == {"mul", "mulh", "mulhsu", "mulhu"}

func_mul(o, a, b) ==
  CASE o = "mul" -> Wrap(a * b)
    [] o = "mulh" -> mulh(a, b)
    [] o = "mulhsu" -> mulhsu(a, b)
    [] o = "mulhu" -> mulhu(a, b)

DivOps == {"div", "divu", "rem", "remu"}

\* Mutant: the operands of div and rem are not cast to int64_t.
func_div_NoCast(o, a, b) ==
  CASE b = 0 -> IF o \in {"div", "divu"} THEN UINT64_MAX ELSE a
    [] b # 0 /\ o \in {"div", "divu"} -> a \div b
    [] b # 0 /\ o \in {"rem", "remu"} -> a % b

func_div(o, a, b) ==
  LET overflow == a = INT64_MIN /\ b = UINT64_MAX
  IN  CASE b = 0 -> IF o \in {"div", "divu"} THEN UINT64_MAX ELSE a
        [] b # 0 /\ overflow /\ o = "div" -> INT64_MIN
        [] b # 0 /\ overflow /\ o = "rem" -> 0
        [] b # 0 /\ ~overflow /\ o = "div" -> Wrap(Truncated(Signed(a), Signed(b)))
        [] b # 0 /\ ~overflow /\ o = "rem" -> Wrap(Rest(Signed(a), Signed(b)))
        [] b # 0 /\ o = "divu" -> a \div b
        [] b # 0 /\ o = "remu" -> a % b

DivWordOps == {"divw", "divuw", "remw", "remuw"}

\* The test for zero is on all of rs2, the division by its lower half.
func_divw(o, a, b) ==
  CASE b = 0 -> IF o \in {"divw", "divuw"} THEN UINT64_MAX ELSE Wrap(int32(a))
    [] b # 0 /\ uint32(b) = 0 -> Crash
    [] uint32(b) # 0 /\ o = "divw" -> Wrap(int32(Truncated(int32(a), int32(b))))
    [] uint32(b) # 0 /\ o = "divuw" -> Wrap(int32(uint32(a) \div uint32(b)))
    [] uint32(b) # 0 /\ o = "remw" -> Wrap(int32(Rest(int32(a), int32(b))))
    [] uint32(b) # 0 /\ o = "remuw" -> Wrap(int32(uint32(a) % uint32(b)))

-----------------------------------------------------------------------------
Init ==
  /\ rs1 \in Values /\ rs2 \in Values
  /\ op = "none" /\ rd = 0 /\ ctl = "ready"

Executed(o, value) ==
  /\ ctl = "ready"
  /\ value # Crash
  /\ op' = o /\ rd' = value /\ ctl' = "done"
  /\ UNCHANGED <<rs1, rs2>>

ExecImm == \E o \in Immediate : Executed(o, func_imm(o, rs1, Signed(rs2)))
ExecBasic == \E o \in Basic : Executed(o, func_basic(o, rs1, rs2))
ExecWord == \E o \in WordOps : Executed(o, func_word(o, rs1, rs2))
ExecMul == \E o \in MulOps : Executed(o, func_mul(o, rs1, rs2))
ExecDiv == \E o \in DivOps : Executed(o, func_div(o, rs1, rs2))
ExecDivWord == \E o \in DivWordOps : Executed(o, func_divw(o, rs1, rs2))

DivCrashes ==
  /\ ctl = "ready"
  /\ \E o \in DivWordOps : func_divw(o, rs1, rs2) = Crash /\ op' = o
  /\ ctl' = "crashed"
  /\ UNCHANGED <<rs1, rs2, rd>>

Returned == ctl # "ready" /\ UNCHANGED vars

Next ==
  \/ ExecImm \/ ExecBasic \/ ExecWord \/ ExecMul \/ ExecDiv \/ ExecDivWord \/ DivCrashes
  \/ Returned

Spec == Init /\ [][Next]_vars

-----------------------------------------------------------------------------
(* Properties.                                                             *)

\* A handler's result is a uint64_t: no operator of this module leaves the range of the
\* C type that it stands for.
TypeOK ==
  /\ rs1 \in Values /\ rs2 \in Values /\ rd \in Word
  /\ op \in {"none"} \cup Immediate \cup Basic \cup WordOps \cup MulOps \cup DivOps \cup DivWordOps
  /\ ctl \in {"ready", "done", "crashed"}

Done(o) == ctl = "done" /\ op = o

\* mul and the three high multiplications are the two halves of the product,
\* although mulh and mulhsu multiply magnitudes and negate the result in halves.
FullProduct ==
  LET low == func_mul("mul", rs1, rs2)
  IN  /\ Done("mulhu") => rd * AddrSpace + low = rs1 * rs2
      /\ Done("mulh") => Signed(rd) * AddrSpace + low = Signed(rs1) * Signed(rs2)
      /\ Done("mulhsu") => Signed(rd) * AddrSpace + low = Signed(rs1) * rs2

\* q and r are the quotient and the remainder of a by b as RISC-V defines them,
\* division by zero and the one overflow included.
Divides(a, b, q, r, allOnes, least) ==
  IF b = 0 THEN q = allOnes /\ r = a
  ELSE IF a = least /\ b = -1 THEN q = a /\ r = 0
  ELSE /\ a = q * b + r
       /\ r < (IF b < 0 THEN -b ELSE b) /\ -r < (IF b < 0 THEN -b ELSE b)
       /\ r = 0 \/ (r < 0) = (a < 0)

\* Quotient and remainder fit together in all four pairs of handlers.
QuotientAndRemainder ==
  LET minw == -(2^WLen \div 2)
      maxw == 2^WLen - 1
  IN  /\ Done("div") =>
           Divides(Signed(rs1), Signed(rs2), Signed(rd), Signed(func_div("rem", rs1, rs2)),
                   -1, Signed(INT64_MIN))
      /\ Done("divu") => Divides(rs1, rs2, rd, func_div("remu", rs1, rs2), UINT64_MAX, -1)
      /\ Done("divw") =>
           Divides(int32(rs1), int32(rs2), int32(rd), int32(func_divw("remw", rs1, rs2)), -1, minw)
      /\ Done("divuw") =>
           Divides(uint32(rs1), uint32(rs2), uint32(rd), uint32(func_divw("remuw", rs1, rs2)),
                   maxw, -1)

\* A 32-bit operation depends only on the lower halves of its operands, and its
\* result is the sign extension of its own lower half.
WordOpsUseLowHalf ==
  ctl = "done" /\ op \in WordOps \cup DivWordOps =>
    LET Low(v) == Wrap(int32(v))
    IN  /\ rd = Low(rd)
        /\ rd = IF op \in WordOps THEN func_word(op, Low(rs1), Low(rs2))
                ELSE func_divw(op, Low(rs1), Low(rs2))

\* An immediate operation is the register operation on the sign-extended
\* immediate.
ImmediateIsRegisterForm ==
  LET Form == [addi |-> "add", slli |-> "sll", slti |-> "slt", sltiu |-> "sltu", xori |-> "xor",
               srli |-> "srl", srai |-> "sra", ori |-> "or", andi |-> "and",
               addiw |-> "addw", slliw |-> "sllw", srliw |-> "srlw", sraiw |-> "sraw"]
  IN  ctl = "done" /\ op \in Immediate =>
        rd = IF Form[op] \in Basic THEN func_basic(Form[op], rs1, rs2)
             ELSE func_word(Form[op], rs1, rs2)

\* Within w bits, the bits of v are moved n places up, zeroes following them; or n
\* places down, with fill coming in at the top.
MovedUp(v, n, w) ==
  \A k \in 0 .. (w - 1) : BitOf(rd, k) = IF k < n THEN 0 ELSE BitOf(v, k - n)
MovedDown(v, n, w, fill) ==
  \A k \in 0 .. (w - 1) : BitOf(rd, k) = IF k + n < w THEN BitOf(v, k + n) ELSE fill

\* A shift moves the bits of the register, or of its lower half, by the lowest bits of
\* rs2 and fills up with zeroes or with the sign: at every amount from 0 to one less
\* than the width, for negative operands and ones whose upper half is another number.
ShiftsMoveBits ==
  LET n == rs2 % XLen
      m == rs2 % WLen
  IN  /\ Done("sll") => MovedUp(rs1, n, XLen)
      /\ Done("srl") => MovedDown(rs1, n, XLen, 0)
      /\ Done("sra") => MovedDown(rs1, n, XLen, BitOf(rs1, XLen - 1))
      /\ Done("sllw") => MovedUp(rs1, m, WLen)
      /\ Done("srlw") => MovedDown(rs1, m, WLen, 0)
      /\ Done("sraw") => MovedDown(rs1, m, WLen, BitOf(rs1, WLen - 1))

-----------------------------------------------------------------------------
(* What a comment says that the code does not do.                          *)

\* A 32-bit division by zero gives UINT64_MAX or rs1, and so always a result.
DivisionByZeroDefined == ctl # "crashed"
=============================================================================
