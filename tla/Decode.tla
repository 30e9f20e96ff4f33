------------------------------- MODULE Decode -------------------------------
(***************************************************************************)
(* decode_inst: from a 32-bit word to an inst_t, for the compressed        *)
(* quadrants 0 to 2 and the 32-bit quadrant 3.                             *)
(*                                                                         *)
(* A word is a pair of 16-bit halves <<low, high>>, the cells of Arch.     *)
(* The shifts and masks of the code are kept as they are; `(x << k) >> k`  *)
(* on an int32_t is the sign extension of the lower 32 - k bits.           *)
(***************************************************************************)
EXTENDS Integers, Sequences, Dispatch

CONSTANT Words      \* the words to be decoded

VARIABLES data, inst,
          ctl       \* "fetched", "decoded", or "fatal" once the process has exited

vars == <<data, inst, ctl>>

Half == 0 .. (2^16 - 1)

ASSUME WordsAssumption == Words \subseteq (Half \X Half)

\* (data >> lo) & (2^n - 1)
Bits(d, lo, n) ==
  IF lo >= 16 THEN (d[2] \div 2^(lo - 16)) % 2^n
  ELSE IF lo + n <= 16 THEN (d[1] \div 2^lo) % 2^n
  ELSE (d[1] \div 2^lo) + (d[2] % 2^(lo + n - 16)) * 2^(16 - lo)

\* A field of the word, moved to bit `to` of the immediate.
Field(d, lo, n, to) == Bits(d, lo, n) * 2^to

SignExtend(x, n) == IF x >= 2^(n - 1) THEN x - 2^n ELSE x

-----------------------------------------------------------------------------
(* inst_t, and the readers, which fill in some fields and clear the rest.  *)

Cleared ==
  [type |-> "lb", rd |-> 0, rs1 |-> 0, rs2 |-> 0, rs3 |-> 0, imm |-> 0,
   csr |-> 0, rvc |-> FALSE, continue_exec |-> FALSE]

\* fatal, unreachable and a failed assertion end the process.
Illegal == [Cleared EXCEPT !.type = "illegal"]

x0 == 0
ra == 1
sp == 2

QUADRANT(d) == Bits(d, 0, 2)
OPCODE(d) == Bits(d, 2, 5)
RD(d) == Bits(d, 7, 5)
RS1(d) == Bits(d, 15, 5)
RS2(d) == Bits(d, 20, 5)
RS3(d) == Bits(d, 27, 5)
FUNCT2(d) == Bits(d, 25, 2)
FUNCT3(d) == Bits(d, 12, 3)
FUNCT7(d) == Bits(d, 25, 7)
IMM116(d) == Bits(d, 26, 6)
COPCODE(d) == Bits(d, 13, 3)
CFUNCT1(d) == Bits(d, 12, 1)
CFUNCT2LOW(d) == Bits(d, 5, 2)
CFUNCT2HIGH(d) == Bits(d, 10, 2)
RP1(d) == Bits(d, 7, 3)
RP2(d) == Bits(d, 2, 3)
RC1(d) == Bits(d, 7, 5)
RC2(d) == Bits(d, 2, 5)

inst_utype_read(d) ==
  [Cleared EXCEPT !.imm = SignExtend(Bits(d, 12, 20), 20) * 2^12, !.rd = RD(d)]

inst_itype_read(d) ==
  [Cleared EXCEPT !.imm = SignExtend(Bits(d, 20, 12), 12), !.rs1 = RS1(d), !.rd = RD(d)]

inst_jtype_read(d) ==
  [Cleared EXCEPT !.imm = SignExtend(Field(d, 31, 1, 20) + Field(d, 12, 8, 12)
                      + Field(d, 20, 1, 11) + Field(d, 21, 10, 1), 21),
   !.rd = RD(d)]

inst_btype_read(d) ==
  [Cleared EXCEPT !.imm = SignExtend(Field(d, 31, 1, 12) + Field(d, 7, 1, 11)
                      + Field(d, 25, 6, 5) + Field(d, 8, 4, 1), 13),
   !.rs1 = RS1(d), !.rs2 = RS2(d)]

inst_rtype_read(d) == [Cleared EXCEPT !.rs1 = RS1(d), !.rs2 = RS2(d), !.rd = RD(d)]

inst_stype_read(d) ==
  [Cleared EXCEPT !.imm = SignExtend(Field(d, 25, 7, 5) + Bits(d, 7, 5), 12),
   !.rs1 = RS1(d), !.rs2 = RS2(d)]

inst_csrtype_read(d) ==
  [Cleared EXCEPT !.csr = Bits(d, 20, 12), !.rs1 = RS1(d), !.rd = RD(d)]

\* Mutant: rs3 is taken from the five bits below its own.
inst_fprtype_read_Rs3Low(d) ==
  [Cleared EXCEPT !.rs1 = RS1(d), !.rs2 = RS2(d), !.rs3 = Bits(d, 25, 5), !.rd = RD(d)]

inst_fprtype_read(d) ==
  [Cleared EXCEPT !.rs1 = RS1(d), !.rs2 = RS2(d), !.rs3 = RS3(d), !.rd = RD(d)]

Compressed == [Cleared EXCEPT !.rvc = TRUE]

inst_catype_read(d) == [Compressed EXCEPT !.rd = RP1(d) + 8, !.rs2 = RP2(d) + 8]

inst_crtype_read(d) == [Compressed EXCEPT !.rs1 = RC1(d), !.rs2 = RC2(d)]

Imm6(d) == SignExtend(Field(d, 12, 1, 5) + Bits(d, 2, 5), 6)

inst_citype_read(d) == [Compressed EXCEPT !.imm = Imm6(d), !.rd = RC1(d)]

inst_citype_read2(d) ==
  [Compressed EXCEPT !.imm = Field(d, 2, 3, 6) + Field(d, 5, 2, 3) + Field(d, 12, 1, 5),
   !.rd = RC1(d)]

inst_citype_read3(d) ==
  [Compressed EXCEPT !.imm = SignExtend(Field(d, 2, 1, 5) + Field(d, 3, 2, 7) + Field(d, 5, 1, 6)
                      + Field(d, 6, 1, 4) + Field(d, 12, 1, 9), 10),
   !.rd = RC1(d)]

inst_citype_read4(d) ==
  [Compressed EXCEPT !.imm = Field(d, 12, 1, 5) + Field(d, 4, 3, 2) + Field(d, 2, 2, 6),
   !.rd = RC1(d)]

inst_citype_read5(d) ==
  [Compressed EXCEPT !.imm = SignExtend(Field(d, 2, 5, 12) + Field(d, 12, 1, 17), 18),
   !.rd = RC1(d)]

inst_cbtype_read(d) ==
  [Compressed EXCEPT !.imm = SignExtend(Field(d, 12, 1, 8) + Field(d, 5, 2, 6) + Field(d, 2, 1, 5)
                      + Field(d, 10, 2, 3) + Field(d, 3, 2, 1), 9),
   !.rs1 = RP1(d) + 8]

inst_cbtype_read2(d) == [Compressed EXCEPT !.imm = Imm6(d), !.rd = RP1(d) + 8]

\* The immediates of c.ld and c.sd, and of c.lw and c.sw.
Imm76_53(d) == Field(d, 5, 2, 6) + Field(d, 10, 3, 3)
Imm6_2_53(d) == Field(d, 5, 1, 6) + Field(d, 6, 1, 2) + Field(d, 10, 3, 3)

inst_cstype_read(d) ==
  [Compressed EXCEPT !.imm = Imm76_53(d), !.rs1 = RP1(d) + 8, !.rs2 = RP2(d) + 8]

inst_cstype_read2(d) ==
  [Compressed EXCEPT !.imm = Imm6_2_53(d), !.rs1 = RP1(d) + 8, !.rs2 = RP2(d) + 8]

\* Mutant: the bits for imm[6] and imm[7] are swapped.
inst_cjtype_read_Swapped(d) ==
  [Compressed EXCEPT !.imm = SignExtend(Field(d, 2, 1, 5) + Field(d, 3, 3, 1) + Field(d, 6, 1, 6)
                      + Field(d, 7, 1, 7) + Field(d, 8, 1, 10) + Field(d, 9, 2, 8)
                      + Field(d, 11, 1, 4) + Field(d, 12, 1, 11), 12)]

inst_cjtype_read(d) ==
  [Compressed EXCEPT !.imm = SignExtend(Field(d, 2, 1, 5) + Field(d, 3, 3, 1) + Field(d, 6, 1, 7)
                      + Field(d, 7, 1, 6) + Field(d, 8, 1, 10) + Field(d, 9, 2, 8)
                      + Field(d, 11, 1, 4) + Field(d, 12, 1, 11), 12)]

\* Mutant: the field of rd is not masked.
inst_cltype_read_Wide(d) ==
  [Compressed EXCEPT !.imm = Imm6_2_53(d), !.rs1 = RP1(d) + 8, !.rd = Bits(d, 2, 14) + 8]

inst_cltype_read(d) ==
  [Compressed EXCEPT !.imm = Imm6_2_53(d), !.rs1 = RP1(d) + 8, !.rd = RP2(d) + 8]

inst_cltype_read2(d) ==
  [Compressed EXCEPT !.imm = Imm76_53(d), !.rs1 = RP1(d) + 8, !.rd = RP2(d) + 8]

inst_csstype_read(d) ==
  [Compressed EXCEPT !.imm = Field(d, 7, 3, 6) + Field(d, 10, 3, 3), !.rs2 = RC2(d)]

inst_csstype_read2(d) ==
  [Compressed EXCEPT !.imm = Field(d, 7, 2, 6) + Field(d, 9, 4, 2), !.rs2 = RC2(d)]

inst_ciwtype_read(d) ==
  [Compressed EXCEPT !.imm = Field(d, 5, 1, 3) + Field(d, 6, 1, 2) + Field(d, 7, 4, 6)
                               + Field(d, 11, 2, 4),
   !.rd = RP2(d) + 8]

-----------------------------------------------------------------------------
(* The switches.  A table lists the cases 0, 1, ... of a switch; "illegal" *)
(* stands for the ones that end in fatal, unreachable or an assertion.     *)

Case(table, k) == IF k < Len(table) THEN table[k + 1] ELSE "illegal"

Checked(condition, i) == IF condition THEN i ELSE Illegal

Quadrant0(d) ==
  LET ciw == inst_ciwtype_read(d)
      c == COPCODE(d)
  IN  CASE c = 0 -> Checked(ciw.imm # 0, [ciw EXCEPT !.type = "addi", !.rs1 = sp])
        [] c = 1 -> [inst_cltype_read2(d) EXCEPT !.type = "fld"]
        [] c = 2 -> [inst_cltype_read(d) EXCEPT !.type = "lw"]
        [] c = 3 -> [inst_cltype_read2(d) EXCEPT !.type = "ld"]
        [] c = 4 -> Illegal
        [] c = 5 -> [inst_cstype_read(d) EXCEPT !.type = "fsd"]
        [] c = 6 -> [inst_cstype_read2(d) EXCEPT !.type = "sw"]
        [] c = 7 -> [inst_cstype_read(d) EXCEPT !.type = "sd"]

\* C.SRLI, C.SRAI, C.ANDI and the register-register group.
CompressedAlu(d) ==
  IF CFUNCT2HIGH(d) < 3
  THEN LET i == inst_cbtype_read2(d)
       IN  [i EXCEPT !.type = Case(<<"srli", "srai", "andi">>, CFUNCT2HIGH(d)), !.rs1 = i.rd]
  ELSE LET i == inst_catype_read(d)
           t == IF CFUNCT1(d) = 0
                THEN Case(<<"sub", "xor", "or", "and">>, CFUNCT2LOW(d))
                ELSE Case(<<"subw", "addw">>, CFUNCT2LOW(d))
       IN  Checked(t # "illegal", [i EXCEPT !.type = t, !.rs1 = i.rd])

Quadrant1(d) ==
  LET ci == inst_citype_read(d)
      ci3 == inst_citype_read3(d)
      ci5 == inst_citype_read5(d)
      c == COPCODE(d)
  IN  CASE c = 0 -> [ci EXCEPT !.type = "addi", !.rs1 = ci.rd]
        [] c = 1 -> Checked(ci.rd # 0, [ci EXCEPT !.type = "addiw", !.rs1 = ci.rd])
        [] c = 2 -> [ci EXCEPT !.type = "addi", !.rs1 = x0]
        [] c = 3 /\ RC1(d) = 2 ->
             Checked(ci3.imm # 0, [ci3 EXCEPT !.type = "addi", !.rs1 = ci3.rd])
        [] c = 3 /\ RC1(d) # 2 -> Checked(ci5.imm # 0, [ci5 EXCEPT !.type = "lui"])
        [] c = 4 -> CompressedAlu(d)
        [] c = 5 -> [inst_cjtype_read(d) EXCEPT !.type = "jal", !.rd = x0, !.continue_exec = TRUE]
        [] c \in {6, 7} ->
             [inst_cbtype_read(d) EXCEPT !.type = IF c = 6 THEN "beq" ELSE "bne", !.rs2 = x0]

\* Mutant: C.MV keeps rs1 and adds like C.ADD.
CompressedMove_Adds(d) ==
  LET i == inst_crtype_read(d)
      jump == [i EXCEPT !.type = "jalr", !.continue_exec = TRUE,
               !.rd = IF CFUNCT1(d) = 0 THEN x0 ELSE ra]
  IN  IF i.rs2 = 0 THEN Checked(i.rs1 # 0, jump)
      ELSE [i EXCEPT !.type = "add", !.rd = i.rs1]

\* C.JR, C.MV, C.EBREAK, C.JALR and C.ADD.
CompressedMove(d) ==
  LET i == inst_crtype_read(d)
      jump == [i EXCEPT !.type = "jalr", !.continue_exec = TRUE,
               !.rd = IF CFUNCT1(d) = 0 THEN x0 ELSE ra]
  IN  IF i.rs2 = 0 THEN Checked(i.rs1 # 0, jump)
      ELSE IF CFUNCT1(d) = 0 THEN [i EXCEPT !.type = "add", !.rd = i.rs1, !.rs1 = x0]
      ELSE [i EXCEPT !.type = "add", !.rd = i.rs1]

Quadrant2(d) ==
  LET ci == inst_citype_read(d)
      ci2 == inst_citype_read2(d)
      ci4 == inst_citype_read4(d)
      c == COPCODE(d)
  IN  CASE c = 0 -> [ci EXCEPT !.type = "slli", !.rs1 = ci.rd]
        [] c = 1 -> [ci2 EXCEPT !.type = "fld", !.rs1 = sp]
        [] c = 2 -> Checked(ci4.rd # 0, [ci4 EXCEPT !.type = "lw", !.rs1 = sp])
        [] c = 3 -> Checked(ci2.rd # 0, [ci2 EXCEPT !.type = "ld", !.rs1 = sp])
        [] c = 4 -> CompressedMove(d)
        [] c = 5 -> [inst_csstype_read(d) EXCEPT !.type = "fsd", !.rs1 = sp]
        [] c = 6 -> [inst_csstype_read2(d) EXCEPT !.type = "sw", !.rs1 = sp]
        [] c = 7 -> [inst_csstype_read(d) EXCEPT !.type = "sd", !.rs1 = sp]

\* OPCODE 0x4 and 0x6: register-immediate operations, 64 and 32 bits.
ImmediateType(d) ==
  LET shift == IF IMM116(d) = 0 THEN "srli" ELSE IF IMM116(d) = 16 THEN "srai" ELSE "illegal"
  IN  IF FUNCT3(d) = 1 /\ IMM116(d) # 0 THEN "illegal"
      ELSE Case(<<"addi", "slli", "slti", "sltiu", "xori", shift, "ori", "andi">>, FUNCT3(d))

ImmediateWType(d) ==
  CASE FUNCT3(d) = 0 -> "addiw"
    [] FUNCT3(d) = 1 /\ FUNCT7(d) = 0 -> "slliw"
    [] FUNCT3(d) = 5 /\ FUNCT7(d) = 0 -> "srliw"
    [] FUNCT3(d) = 5 /\ FUNCT7(d) = 32 -> "sraiw"
    [] OTHER -> "illegal"

\* OPCODE 0xc and 0xe: register-register operations, 64 and 32 bits.
RegisterType(d) ==
  LET f3 == FUNCT3(d)
  IN  CASE FUNCT7(d) = 0 -> Case(<<"add", "sll", "slt", "sltu", "xor", "srl", "or", "and">>, f3)
        [] FUNCT7(d) = 1 ->
             Case(<<"mul", "mulh", "mulhsu", "mulhu", "div", "divu", "rem", "remu">>, f3)
        [] FUNCT7(d) = 32 /\ f3 = 0 -> "sub"
        [] FUNCT7(d) = 32 /\ f3 = 5 -> "sra"
        [] OTHER -> "illegal"

RegisterWType(d) ==
  LET f3 == FUNCT3(d)
      no == "illegal"
  IN  CASE FUNCT7(d) = 0 -> Case(<<"addw", "sllw", no, no, no, "srlw">>, f3)
        [] FUNCT7(d) = 1 -> Case(<<"mulw", no, no, no, "divw", "divuw", "remw", "remuw">>, f3)
        [] FUNCT7(d) = 32 -> Case(<<"subw", no, no, no, no, "sraw">>, f3)
        [] OTHER -> no

\* OPCODE 0x14: conversions, moves and classification, by rs2 or by funct3.
FloatConvertType(d) ==
  LET f7 == FUNCT7(d)
      ByRs2(table) == Case(table, RS2(d))
      Unary(table) == IF RS2(d) = 0 THEN Case(table, FUNCT3(d)) ELSE "illegal"
  IN  CASE f7 = 96 -> ByRs2(<<"fcvt_w_s", "fcvt_wu_s", "fcvt_l_s", "fcvt_lu_s">>)
        [] f7 = 97 -> ByRs2(<<"fcvt_w_d", "fcvt_wu_d", "fcvt_l_d", "fcvt_lu_d">>)
        [] f7 = 104 -> ByRs2(<<"fcvt_s_w", "fcvt_s_wu", "fcvt_s_l", "fcvt_s_lu">>)
        [] f7 = 105 -> ByRs2(<<"fcvt_d_w", "fcvt_d_wu", "fcvt_d_l", "fcvt_d_lu">>)
        [] f7 = 112 -> Unary(<<"fmv_x_w", "fclass_s">>)
        [] f7 = 113 -> Unary(<<"fmv_x_d", "fclass_d">>)
        [] f7 = 120 -> Unary(<<"fmv_w_x">>)
        [] f7 = 121 -> Unary(<<"fmv_d_x">>)
        [] OTHER -> "illegal"

\* OPCODE 0x14: the floating-point operations.  An assertion fixes rs2 where it
\* is not an operand, and funct3 for the moves from integer registers.
FloatType(d) ==
  LET f7 == FUNCT7(d)
      ByFunct3(table) == Case(table, FUNCT3(d))
      ByRs2(table) == Case(table, RS2(d))
  IN  CASE f7 \in {0, 4, 8, 12} -> Case(<<"fadd_s", "fsub_s", "fmul_s", "fdiv_s">>, f7 \div 4)
        [] f7 \in {1, 5, 9, 13} -> Case(<<"fadd_d", "fsub_d", "fmul_d", "fdiv_d">>, f7 \div 4)
        [] f7 = 16 -> ByFunct3(<<"fsgnj_s", "fsgnjn_s", "fsgnjx_s">>)
        [] f7 = 17 -> ByFunct3(<<"fsgnj_d", "fsgnjn_d", "fsgnjx_d">>)
        [] f7 = 20 -> ByFunct3(<<"fmin_s", "fmax_s">>)
        [] f7 = 21 -> ByFunct3(<<"fmin_d", "fmax_d">>)
        [] f7 = 80 -> ByFunct3(<<"fle_s", "flt_s", "feq_s">>)
        [] f7 = 81 -> ByFunct3(<<"fle_d", "flt_d", "feq_d">>)
        [] f7 = 32 -> ByRs2(<<"illegal", "fcvt_s_d">>)
        [] f7 = 33 -> ByRs2(<<"fcvt_d_s">>)
        [] f7 = 44 -> ByRs2(<<"fsqrt_s">>)
        [] f7 = 45 -> ByRs2(<<"fsqrt_d">>)
        [] OTHER -> FloatConvertType(d)

\* OPCODE 0x10 to 0x13: fused multiply-add.
FusedType(d) ==
  LET Name == <<<<"fmadd_s", "fmadd_d">>, <<"fmsub_s", "fmsub_d">>,
                <<"fnmsub_s", "fnmsub_d">>, <<"fnmadd_s", "fnmadd_d">>>>
  IN  Case(Name[OPCODE(d) - 15], FUNCT2(d))

Typed(t, i) == Checked(t # "illegal", [i EXCEPT !.type = t])

\* The cases of OPCODE; 0x73, which is ecall, does not get here.
Opcodes(d) ==
  LET op == OPCODE(d)
      f3 == FUNCT3(d)
      no == "illegal"
      i == inst_itype_read(d)
      s == inst_stype_read(d)
  IN  CASE op = 0 -> Typed(Case(<<"lb", "lh", "lw", "ld", "lbu", "lhu", "lwu">>, f3), i)
        [] op = 1 -> Typed(Case(<<no, no, "flw", "fld">>, f3), i)
        [] op = 3 -> Typed(Case(<<"fence", "fence_i">>, f3), Cleared)
        [] op = 4 -> Typed(ImmediateType(d), i)
        [] op = 5 -> Typed("auipc", inst_utype_read(d))
        [] op = 6 -> Typed(ImmediateWType(d), i)
        [] op = 8 -> Typed(Case(<<"sb", "sh", "sw", "sd">>, f3), s)
        [] op = 9 -> Typed(Case(<<no, no, "fsw", "fsd">>, f3), s)
        [] op = 12 -> Typed(RegisterType(d), inst_rtype_read(d))
        [] op = 13 -> Typed("lui", inst_utype_read(d))
        [] op = 14 -> Typed(RegisterWType(d), inst_rtype_read(d))
        [] op \in 16 .. 19 -> Typed(FusedType(d), inst_fprtype_read(d))
        [] op = 20 -> Typed(FloatType(d), inst_rtype_read(d))
        [] op = 24 -> Typed(Case(<<"beq", "bne", no, no, "blt", "bge", "bltu", "bgeu">>, f3),
                            inst_btype_read(d))
        [] op = 25 -> [i EXCEPT !.type = "jalr", !.continue_exec = TRUE]
        [] op = 27 -> [inst_jtype_read(d) EXCEPT !.type = "jal", !.continue_exec = TRUE]
        [] op = 28 ->
             Typed(Case(<<no, "csrrw", "csrrs", "csrrc", no, "csrrwi", "csrrsi", "csrrci">>, f3),
                   inst_csrtype_read(d))
        [] OTHER -> Illegal

EcallWord == <<115, 0>>     \* 0x73

\* ecall only sets two fields of the old struct.
Quadrant3(old, d) ==
  IF d = EcallWord THEN [old EXCEPT !.type = "ecall", !.continue_exec = TRUE] ELSE Opcodes(d)

\* Mutant: a compressed instruction does not clear continue_exec.
decode_inst_Sticky(old, d) ==
  CASE QUADRANT(d) = 0 -> [Quadrant0(d) EXCEPT !.continue_exec = old.continue_exec]
    [] QUADRANT(d) = 1 -> Quadrant1(d)
    [] QUADRANT(d) = 2 -> Quadrant2(d)
    [] QUADRANT(d) = 3 -> Quadrant3(old, d)

decode_inst(old, d) ==
  CASE QUADRANT(d) = 0 -> Quadrant0(d)
    [] QUADRANT(d) = 1 -> Quadrant1(d)
    [] QUADRANT(d) = 2 -> Quadrant2(d)
    [] QUADRANT(d) = 3 -> Quadrant3(old, d)

-----------------------------------------------------------------------------
Init == data \in Words /\ inst = Cleared /\ ctl = "fetched"

Decode ==
  /\ ctl = "fetched"
  /\ decode_inst(inst, data) # Illegal
  /\ inst' = decode_inst(inst, data)
  /\ ctl' = "decoded"
  /\ UNCHANGED data

Fatal ==
  /\ ctl = "fetched"
  /\ decode_inst(inst, data) = Illegal
  /\ ctl' = "fatal"
  /\ UNCHANGED <<data, inst>>

Returned == ctl # "fetched" /\ UNCHANGED vars

Next == Decode \/ Fatal \/ Returned

Spec == Init /\ [][Next]_vars

-----------------------------------------------------------------------------
(* The reference: the instruction formats as the RISC-V manual draws them. *)
(* A row gives, from the highest bit of the word down, the immediate's bit *)
(* that the word's bit holds; x is a bit that belongs to something else.   *)

x == -1

Blank(n) == [k \in 1 .. n |-> x]

\* Bits 31 to 7.
Row32 == [
  R |-> Blank(25),
  I |-> <<11, 10, 9, 8, 7, 6, 5, 4, 3, 2, 1, 0, x, x, x, x, x, x, x, x, x, x, x, x, x>>,
  S |-> <<11, 10, 9, 8, 7, 6, 5, x, x, x, x, x, x, x, x, x, x, x, x, x, 4, 3, 2, 1, 0>>,
  B |-> <<12, 10, 9, 8, 7, 6, 5, x, x, x, x, x, x, x, x, x, x, x, x, x, 4, 3, 2, 1, 11>>,
  U |-> <<31, 30, 29, 28, 27, 26, 25, 24, 23, 22, 21, 20, 19, 18, 17, 16, 15, 14, 13, 12,
          x, x, x, x, x>>,
  J |-> <<20, 10, 9, 8, 7, 6, 5, 4, 3, 2, 1, 11, 19, 18, 17, 16, 15, 14, 13, 12,
          x, x, x, x, x>>]

\* The immediate of a shift has six bits.
ShiftRow == <<x, x, x, x, x, x, 5, 4, 3, 2, 1, 0, x, x, x, x, x, x, x, x, x, x, x, x, x>>

\* Bits 12 to 2 of the compressed formats.
RvcRow(d) ==
  LET q == QUADRANT(d)
      c == COPCODE(d)
  IN  CASE q = 0 /\ c = 0 -> <<5, 4, 9, 8, 7, 6, 2, 3, x, x, x>>
        [] q = 0 /\ c \in {2, 6} -> <<5, 4, 3, x, x, x, 2, 6, x, x, x>>
        [] q = 0 /\ c \in {1, 3, 5, 7} -> <<5, 4, 3, x, x, x, 7, 6, x, x, x>>
        [] q = 1 /\ c = 3 /\ RC1(d) = 2 -> <<9, x, x, x, x, x, 4, 6, 8, 7, 5>>
        [] q = 1 /\ c = 3 /\ RC1(d) # 2 -> <<17, x, x, x, x, x, 16, 15, 14, 13, 12>>
        [] q = 1 /\ c = 4 /\ CFUNCT2HIGH(d) = 3 -> Blank(11)
        [] q = 1 /\ c = 5 -> <<11, 4, 9, 8, 10, 6, 7, 3, 2, 1, 5>>
        [] q = 1 /\ c \in {6, 7} -> <<8, 4, 3, x, x, x, 7, 6, 2, 1, 5>>
        [] q = 2 /\ c \in {1, 3} -> <<5, x, x, x, x, x, 4, 3, 8, 7, 6>>
        [] q = 2 /\ c = 2 -> <<5, x, x, x, x, x, 4, 3, 2, 7, 6>>
        [] q = 2 /\ c = 4 -> Blank(11)
        [] q = 2 /\ c \in {5, 7} -> <<5, 4, 3, 8, 7, 6, x, x, x, x, x>>
        [] q = 2 /\ c = 6 -> <<5, 4, 3, 2, 7, 6, x, x, x, x, x>>
        [] OTHER -> <<5, x, x, x, x, x, 4, 3, 2, 1, 0>>

\* The signed immediates repeat their highest bit up to bit 31.
RvcReach(d) == IF QUADRANT(d) = 1 THEN 31 ELSE 0

Shifts == {"slli", "srli", "srai", "slliw", "srliw", "sraiw"}

\* Bit k of the immediate that the row draws into the word d, from bit top
\* down, its highest bit repeated up to bit reach.
RowBit(d, top, row, reach, k) ==
  LET Source(n) == {j \in DOMAIN row : row[j] = n}
      Drawn(n) == Bits(d, top + 1 - (CHOOSE j \in Source(n) : TRUE), 1)
      highest == CHOOSE h \in {row[j] : j \in DOMAIN row} : \A j \in DOMAIN row : row[j] <= h
  IN  IF Source(k) # {} THEN Drawn(k)
      ELSE IF k <= reach /\ k > highest /\ highest # x THEN Drawn(highest)
      ELSE 0

RvcBit(d, k) == RowBit(d, 12, RvcRow(d), RvcReach(d), k)

\* Bit k of the two's complement form of an immediate.
ImmBit(v, k) == IF k < 31 THEN (v \div 2^k) % 2 ELSE IF v < 0 THEN 1 ELSE 0

Format(t) ==
  CASE t \in {"lui", "auipc"} -> "U"
    [] t = "jal" -> "J"
    [] t \in {"beq", "bne", "blt", "bge", "bltu", "bgeu"} -> "B"
    [] t \in {"sb", "sh", "sw", "sd", "fsw", "fsd"} -> "S"
    [] t \in {"lb", "lh", "lw", "ld", "lbu", "lhu", "lwu", "flw", "fld", "jalr", "addi",
              "slti", "sltiu", "xori", "ori", "andi", "addiw"} \cup Shifts -> "I"
    [] OTHER -> "R"

\* opcode, funct3 and funct7 of the instructions that have a short form.
Encoding == [
  lw |-> <<0, 2, 0>>, ld |-> <<0, 3, 0>>, fld |-> <<1, 3, 0>>, addi |-> <<4, 0, 0>>,
  slli |-> <<4, 1, 0>>, srli |-> <<4, 5, 0>>, srai |-> <<4, 5, 32>>, andi |-> <<4, 7, 0>>,
  addiw |-> <<6, 0, 0>>, sw |-> <<8, 2, 0>>, sd |-> <<8, 3, 0>>, fsd |-> <<9, 3, 0>>,
  add |-> <<12, 0, 0>>, sub |-> <<12, 0, 32>>, xor |-> <<12, 4, 0>>, or |-> <<12, 6, 0>>,
  and |-> <<12, 7, 0>>, lui |-> <<13, 0, 0>>, addw |-> <<14, 0, 0>>, subw |-> <<14, 0, 32>>,
  beq |-> <<24, 0, 0>>, bne |-> <<24, 1, 0>>, jalr |-> <<25, 0, 0>>, jal |-> <<27, 0, 0>>]

\* The instruction that the manual gives for a compressed one: its name, rd,
\* rs1 and rs2.  p and q are the registers of three bits, r and s of five.
Expansion(d) ==
  LET p == Bits(d, 7, 3) + 8
      q == Bits(d, 2, 3) + 8
      r == Bits(d, 7, 5)
      s == Bits(d, 2, 5)
      high == Bits(d, 12, 1)
      Is(quadrant, funct3) == QUADRANT(d) = quadrant /\ COPCODE(d) = funct3
      Alu == <<"sub", "xor", "or", "and", "subw", "addw">>[4 * high + Bits(d, 5, 2) + 1]
  IN  CASE Is(0, 0) -> <<"addi", q, sp, 0>>
        [] Is(0, 1) -> <<"fld", q, p, 0>>
        [] Is(0, 2) -> <<"lw", q, p, 0>>
        [] Is(0, 3) -> <<"ld", q, p, 0>>
        [] Is(0, 5) -> <<"fsd", 0, p, q>>
        [] Is(0, 6) -> <<"sw", 0, p, q>>
        [] Is(0, 7) -> <<"sd", 0, p, q>>
        [] Is(1, 0) -> <<"addi", r, r, 0>>
        [] Is(1, 1) -> <<"addiw", r, r, 0>>
        [] Is(1, 2) -> <<"addi", r, x0, 0>>
        [] Is(1, 3) -> IF r = sp THEN <<"addi", sp, sp, 0>> ELSE <<"lui", r, 0, 0>>
        [] Is(1, 4) -> (CASE Bits(d, 10, 2) = 0 -> <<"srli", p, p, 0>>
                          [] Bits(d, 10, 2) = 1 -> <<"srai", p, p, 0>>
                          [] Bits(d, 10, 2) = 2 -> <<"andi", p, p, 0>>
                          [] Bits(d, 10, 2) = 3 -> <<Alu, p, p, q>>)
        [] Is(1, 5) -> <<"jal", x0, 0, 0>>
        [] Is(1, 6) -> <<"beq", 0, p, x0>>
        [] Is(1, 7) -> <<"bne", 0, p, x0>>
        [] Is(2, 0) -> <<"slli", r, r, 0>>
        [] Is(2, 1) -> <<"fld", r, sp, 0>>
        [] Is(2, 2) -> <<"lw", r, sp, 0>>
        [] Is(2, 3) -> <<"ld", r, sp, 0>>
        [] Is(2, 4) -> IF s = 0 THEN <<"jalr", high, r, 0>>
                       ELSE <<"add", r, IF high = 0 THEN x0 ELSE r, s>>
        [] Is(2, 5) -> <<"fsd", 0, sp, s>>
        [] Is(2, 6) -> <<"sw", 0, sp, s>>
        [] Is(2, 7) -> <<"sd", 0, sp, s>>

\* Where the encoding of an instruction in 32 bits holds its immediate.
LongRow(t) == IF t \in Shifts THEN ShiftRow ELSE Row32[Format(t)]

\* Bit b of the encoding in 32 bits of the instruction i, with the immediate of
\* the short word d.
ExpandBit(d, i, b) ==
  LET e == Encoding[i[1]]
      immediate == LongRow(i[1])[32 - b]
      Part(v, k) == (v \div 2^k) % 2
  IN  CASE b \in 0 .. 1 -> 1
        [] b \in 2 .. 6 -> Part(e[1], b - 2)
        [] b \in 7 .. 31 /\ immediate # x -> RvcBit(d, immediate)
        [] b \in 7 .. 11 /\ immediate = x -> Part(i[2], b - 7)
        [] b \in 12 .. 14 /\ immediate = x -> Part(e[2], b - 12)
        [] b \in 15 .. 19 /\ immediate = x -> Part(i[3], b - 15)
        [] b \in 20 .. 24 /\ immediate = x -> Part(i[4], b - 20)
        [] b \in 25 .. 31 /\ immediate = x -> Part(e[3], b - 25)

\* The compressed word d in 32 bits.
Expand(d) ==
  LET Two(b) == ExpandBit(d, Expansion(d), b) + 2 * ExpandBit(d, Expansion(d), b + 1)
      Four(b) == Two(b) + 4 * Two(b + 2)
      Eight(b) == Four(b) + 16 * Four(b + 4)
  IN  <<Eight(0) + 256 * Eight(8), Eight(16) + 256 * Eight(24)>>

\* What a handler sees: a shift only uses the lower six bits of its immediate.
Meaning(i) ==
  [i EXCEPT !.rvc = FALSE, !.imm = IF i.type \in Shifts THEN i.imm % 64 ELSE i.imm]

Flip(d, b) ==
  LET Half2(h, k) == IF (h \div 2^k) % 2 = 0 THEN h + 2^k ELSE h - 2^k
  IN  IF b < 16 THEN <<Half2(d[1], b), d[2]>> ELSE <<d[1], Half2(d[2], b - 16)>>

\* The bits that carry no meaning here: the rounding mode, the operands of the
\* fences, and funct3 of jalr, which the code does not look at.
Unused(i) ==
  CASE i.rvc -> 16 .. 31
    [] ~i.rvc /\ i.type \in {"fence", "fence_i"} -> (7 .. 11) \cup (15 .. 31)
    [] ~i.rvc /\ i.type = "jalr" -> 12 .. 14
    [] ~i.rvc /\ OPCODE(data) \in 16 .. 19 -> 12 .. 14
    [] ~i.rvc /\ OPCODE(data) = 20
         /\ FUNCT7(data) \in {0, 1, 4, 5, 8, 9, 12, 13, 32, 33, 44, 45, 96, 97, 104, 105}
           -> 12 .. 14
    [] OTHER -> {}

\* c.nop with an immediate is c.li zero, and c.mv zero is c.add zero.
Hint(i) == i.rvc /\ i.type \in {"addi", "add"} /\ i.rd = x0

-----------------------------------------------------------------------------
(* Properties.                                                             *)

\* The fields stay in their ranges: all registers exist.
TypeOK ==
  /\ data \in Half \X Half
  /\ ctl \in {"fetched", "decoded", "fatal"}
  /\ {inst.rd, inst.rs1, inst.rs2, inst.rs3} \subseteq 0 .. 31
  /\ inst.csr \in 0 .. (2^12 - 1)
  /\ inst.rvc \in BOOLEAN /\ inst.continue_exec \in BOOLEAN

\* The readers assemble every immediate bit by bit as the manual lays it out,
\* sign extension included.
ImmediatesAsDrawn ==
  ctl = "decoded" =>
    \A k \in 0 .. (IF inst.type \in Shifts THEN 5 ELSE 31) :
      ImmBit(inst.imm, k) = IF inst.rvc THEN RvcBit(data, k)
                            ELSE RowBit(data, 31, Row32[Format(inst.type)], 31, k)

\* A compressed instruction means what its 32-bit expansion means: the two
\* halves of decode_inst agree, and every short immediate fits the long format.
ShortMeansLong ==
  ctl = "decoded" /\ inst.rvc =>
    Meaning(decode_inst(Cleared, Expand(data))) = Meaning(inst)

\* No bit of an instruction is overlooked: changing one gives a different
\* instruction or none.
EveryBitCounts ==
  ctl = "decoded" /\ ~Hint(inst) =>
    \A b \in (0 .. 31) \ Unused(inst) : decode_inst(Cleared, Flip(data, b)) # inst

\* The struct as an earlier compressed jump has left it, with every field in use.
Leftover ==
  [type |-> "jalr", rd |-> ra, rs1 |-> 31, rs2 |-> 30, rs3 |-> 29, imm |-> -2,
   csr |-> 4095, rvc |-> TRUE, continue_exec |-> TRUE]

\* Decoding into the static inst_t gives the same instruction whatever an earlier
\* one has left there; for ecall this is so of the two fields its handler and the
\* loop use.  Only the three instructions that always leave a block set
\* continue_exec.  This is what the interpreter loop relies on.
NothingStale ==
  ctl = "decoded" =>
    LET again == decode_inst(Leftover, data)
    IN  /\ IF inst.type = "ecall" THEN again.type = "ecall" /\ again.continue_exec
           ELSE again = inst
        /\ inst.continue_exec <=> inst.type \in {"jal", "jalr", "ecall"}

\* Every instruction that is decoded runs the handler of its name, although type
\* and table only meet by position.  The rows of the six csr instructions are in
\* different orders; this does no harm as long as their handlers do the same.
OwnHandler ==
  ctl = "decoded" =>
    LET h == Handler(inst.type)
    IN  \/ h = inst.type
        \/ h = "empty" /\ inst.type \in {"fence", "fence_i"}
        \/ {h, inst.type} \subseteq CsrHandlers
=============================================================================
