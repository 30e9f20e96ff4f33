---------------------------- MODULE DecodeProofs ----------------------------
(***************************************************************************)
(* Decode, for every word of 32 bits: the fields of the decoded inst_t are *)
(* in range, none is left over from an earlier instruction, the type leads *)
(* to the handler of its name, each immediate is assembled bit by bit as   *)
(* the manual draws it, and a short word is decoded to what its expansion  *)
(* to 32 bits is decoded to.                                               *)
(***************************************************************************)
EXTENDS Decode, TLAPS

-----------------------------------------------------------------------------
(* The types and their handlers.                                           *)

Jumps == {"jal", "jalr"}

\* The names of the types that do not leave a block.
Plain == {
  "lb", "lh", "lw", "ld", "lbu", "lhu", "lwu", "fence", "fence_i", "addi",
  "slli", "slti", "sltiu", "xori", "srli", "srai", "ori", "andi", "auipc",
  "addiw", "slliw", "srliw", "sraiw", "sb", "sh", "sw", "sd", "add", "sll",
  "slt", "sltu", "xor", "srl", "or", "and", "mul", "mulh", "mulhsu", "mulhu",
  "div", "divu", "rem", "remu", "sub", "sra", "lui", "addw", "sllw", "srlw",
  "mulw", "divw", "divuw", "remw", "remuw", "subw", "sraw", "beq", "bne",
  "blt", "bge", "bltu", "bgeu", "csrrc", "csrrci", "csrrs", "csrrsi", "csrrw",
  "csrrwi", "flw", "fsw", "fmadd_s", "fmsub_s", "fnmsub_s", "fnmadd_s",
  "fadd_s", "fsub_s", "fmul_s", "fdiv_s", "fsqrt_s", "fsgnj_s", "fsgnjn_s",
  "fsgnjx_s", "fmin_s", "fmax_s", "fcvt_w_s", "fcvt_wu_s", "fmv_x_w", "feq_s",
  "flt_s", "fle_s", "fclass_s", "fcvt_s_w", "fcvt_s_wu", "fmv_w_x", "fcvt_l_s",
  "fcvt_lu_s", "fcvt_s_l", "fcvt_s_lu", "fld", "fsd", "fmadd_d", "fmsub_d",
  "fnmsub_d", "fnmadd_d", "fadd_d", "fsub_d", "fmul_d", "fdiv_d", "fsqrt_d",
  "fsgnj_d", "fsgnjn_d", "fsgnjx_d", "fmin_d", "fmax_d", "fcvt_s_d",
  "fcvt_d_s", "feq_d", "flt_d", "fle_d", "fclass_d", "fcvt_w_d", "fcvt_wu_d",
  "fcvt_d_w", "fcvt_d_wu", "fcvt_l_d", "fcvt_lu_d", "fmv_x_d", "fcvt_d_l",
  "fcvt_d_lu", "fmv_d_x"}

\* The table funcs has at each place the handler of the type there.
LEMMA SamePlaces ==
  ASSUME NEW k \in 1 .. 133
  PROVE  \/ funcs[k] = inst_type_t[k]
         \/ funcs[k] = "empty" /\ inst_type_t[k] \in {"fence", "fence_i"}
         \/ {funcs[k], inst_type_t[k]} \subseteq CsrHandlers
<1>1. k \notin 8 .. 9 /\ k \notin 66 .. 71 => funcs[k] = inst_type_t[k]
  BY DEF funcs, inst_type_t
<1>2. k \in 8 .. 9 => funcs[k] = "empty" /\ inst_type_t[k] \in {"fence", "fence_i"}
  BY DEF funcs, inst_type_t
<1>3. k \in 66 .. 71 => funcs[k] \in CsrHandlers /\ inst_type_t[k] \in CsrHandlers
  BY DEF funcs, inst_type_t, CsrHandlers
<1>4. QED
  BY <1>1, <1>2, <1>3

\* Every type has a place.
LEMMA Placed ==
  ASSUME NEW t \in Plain \cup Jumps \cup {"ecall"}
  PROVE  \E k \in 1 .. 133 : inst_type_t[k] = t
BY DEF Plain, Jumps, inst_type_t

\* funcs[inst.type] is the handler of the type's name.
LEMMA HandlerOfType ==
  ASSUME NEW t \in Plain \cup Jumps \cup {"ecall"}
  PROVE  \/ Handler(t) = t
         \/ Handler(t) = "empty" /\ t \in {"fence", "fence_i"}
         \/ {Handler(t), t} \subseteq CsrHandlers
<1>1. DOMAIN inst_type_t = 1 .. 133
  BY DEF inst_type_t
<1>2. PICK k \in 1 .. 133 : inst_type_t[k] = t
  BY Placed
<1>3. TypeValue[t] = CHOOSE j \in 1 .. 133 : inst_type_t[j] = t
  BY <1>1, <1>2 DEF TypeValue, Place
<1>4. TypeValue[t] \in 1 .. 133 /\ inst_type_t[TypeValue[t]] = t
  BY <1>2, <1>3
<1>5. QED
  BY <1>4, SamePlaces, SMTT(40) DEF Handler

-----------------------------------------------------------------------------
(* The fields of a word.                                                   *)

Reg == 0 .. 31
Csr == 0 .. (2^12 - 1)

\* The members of Half.  (The bound is kept symbolic.)
LEMMA Halves ==
  ASSUME NEW a \in Half
  PROVE  a \in Int /\ 0 <= a /\ a < 65536
<1>1. \A m \in Int : \A v \in 0 .. m : v \in Int /\ 0 <= v /\ v <= m
  OBVIOUS
<1>2. PICK m \in Int : m = 2^16 - 1
  OBVIOUS
<1>3. a \in 0 .. m
  BY <1>2, Zenon DEF Half
<1>4. a \in Int /\ 0 <= a /\ a <= m
  BY <1>1, <1>3, Zenon
<1>5. QED
  BY <1>2, <1>4

\* The ranges of the fields.
LEMMA Fields ==
  ASSUME NEW d \in Half \X Half
  PROVE  /\ QUADRANT(d) \in 0 .. 3 /\ OPCODE(d) \in 0 .. 31 /\ COPCODE(d) \in 0 .. 7
         /\ FUNCT3(d) \in 0 .. 7 /\ FUNCT7(d) \in 0 .. 127 /\ FUNCT2(d) \in 0 .. 3
         /\ CFUNCT1(d) \in 0 .. 1 /\ CFUNCT2LOW(d) \in 0 .. 3 /\ CFUNCT2HIGH(d) \in 0 .. 3
         /\ RD(d) \in Reg /\ RS1(d) \in Reg /\ RS2(d) \in Reg /\ RS3(d) \in Reg
         /\ RP1(d) + 8 \in Reg /\ RP2(d) + 8 \in Reg /\ RC1(d) \in Reg /\ RC2(d) \in Reg
         /\ Bits(d, 20, 12) \in Csr
<1>1. PICK a \in Half, b \in Half : a = d[1] /\ b = d[2]
  OBVIOUS
<1>2. a \in Int /\ 0 <= a /\ a < 65536 /\ b \in Int /\ 0 <= b /\ b < 65536
  BY Halves
<1>3. /\ QUADRANT(d) \in 0 .. 3 /\ OPCODE(d) \in 0 .. 31 /\ COPCODE(d) \in 0 .. 7
      /\ FUNCT3(d) \in 0 .. 7 /\ CFUNCT1(d) \in 0 .. 1 /\ CFUNCT2LOW(d) \in 0 .. 3
      /\ CFUNCT2HIGH(d) \in 0 .. 3
  <2>1. QUADRANT(d) \in 0 .. 3
    BY <1>1, <1>2 DEF QUADRANT, Bits
  <2>2. OPCODE(d) \in 0 .. 31 /\ COPCODE(d) \in 0 .. 7
    BY <1>1, <1>2 DEF OPCODE, COPCODE, Bits
  <2>3. FUNCT3(d) \in 0 .. 7
    BY <1>1, <1>2 DEF FUNCT3, Bits
  <2>4. CFUNCT1(d) \in 0 .. 1
    BY <1>1, <1>2 DEF CFUNCT1, Bits
  <2>5. CFUNCT2LOW(d) \in 0 .. 3 /\ CFUNCT2HIGH(d) \in 0 .. 3
    BY <1>1, <1>2 DEF CFUNCT2LOW, CFUNCT2HIGH, Bits
  <2>6. QED
    BY <2>1, <2>2, <2>3, <2>4, <2>5
<1>4. RP1(d) + 8 \in Reg /\ RP2(d) + 8 \in Reg /\ RC1(d) \in Reg /\ RC2(d) \in Reg
      /\ RD(d) \in Reg
  BY <1>1, <1>2 DEF RP1, RP2, RC1, RC2, RD, Bits, Reg
<1>5. RS2(d) \in Reg /\ RS3(d) \in Reg /\ FUNCT7(d) \in 0 .. 127 /\ FUNCT2(d) \in 0 .. 3
      /\ Bits(d, 20, 12) \in Csr
  <2>1. RS2(d) \in Reg /\ RS3(d) \in Reg
    BY <1>1, <1>2 DEF RS2, RS3, Bits, Reg
  <2>2. FUNCT7(d) \in 0 .. 127
    BY <1>1, <1>2 DEF FUNCT7, Bits
  <2>3. FUNCT2(d) \in 0 .. 3
    BY <1>1, <1>2 DEF FUNCT2, Bits
  <2>4. Bits(d, 20, 12) \in Csr
    BY <1>1, <1>2 DEF Bits, Csr
  <2>5. QED
    BY <2>1, <2>2, <2>3, <2>4
<1>6. RS1(d) \in Reg
  <2>1. RS1(d) = (a \div 32768) + (b % 16) * 2
    <3>1. 2^15 = 32768 /\ 2^(15 + 5 - 16) = 16 /\ 2^(16 - 15) = 2
      OBVIOUS
    <3>2. QED
      BY <1>1, <3>1 DEF RS1, Bits
  <2>2. a \div 32768 \in 0 .. 1 /\ b % 16 \in 0 .. 15
    BY <1>2
  <2>3. QED
    BY <2>1, <2>2 DEF Reg
<1>7. QED
  BY <1>3, <1>4, <1>5, <1>6

-----------------------------------------------------------------------------
(* inst_t.                                                                 *)

Keys == {"type", "rd", "rs1", "rs2", "rs3", "imm", "csr", "rvc", "continue_exec"}

\* The fields are there, and the numbers of registers are.
Fits(i) ==
  /\ DOMAIN i = Keys
  /\ i.rd \in Reg /\ i.rs1 \in Reg /\ i.rs2 \in Reg /\ i.rs3 \in Reg
  /\ i.csr \in Csr /\ i.rvc \in BOOLEAN

\* What a reader returns; rvc tells the long readers from the short.
Read(i) == Fits(i) /\ i.continue_exec = FALSE
LongRead(i) == Read(i) /\ i.rvc = FALSE
ShortRead(i) == Read(i) /\ i.rvc = TRUE

\* What a switch returns, but for ecall.
Decoded(i) ==
  \/ i = Illegal
  \/ Fits(i) /\ i.type \in Plain /\ i.continue_exec = FALSE
  \/ Fits(i) /\ i.type \in Jumps /\ i.continue_exec = TRUE

\* The struct as the readers initialise it.
LEMMA ClearedRead == LongRead(Cleared) /\ ShortRead(Compressed)
<1>1. 0 \in Reg /\ 0 \in Csr
  BY DEF Reg, Csr
<1>2. LongRead(Cleared)
  BY <1>1 DEF LongRead, Read, Fits, Keys, Cleared
<1>3. QED
  BY <1>2 DEF LongRead, ShortRead, Read, Fits, Keys, Compressed

\* Every reader fills in fields of the right range.
LEMMA Readers32 ==
  ASSUME NEW d \in Half \X Half
  PROVE  /\ LongRead(inst_utype_read(d)) /\ LongRead(inst_itype_read(d))
         /\ LongRead(inst_jtype_read(d)) /\ LongRead(inst_btype_read(d))
         /\ LongRead(inst_rtype_read(d)) /\ LongRead(inst_stype_read(d))
         /\ LongRead(inst_csrtype_read(d)) /\ LongRead(inst_fprtype_read(d))
<1>1. LongRead(inst_utype_read(d))
  BY Fields, ClearedRead, Zenon DEF inst_utype_read, LongRead, Read, Fits, Keys
<1>2. LongRead(inst_itype_read(d))
  BY Fields, ClearedRead, Zenon DEF inst_itype_read, LongRead, Read, Fits, Keys
<1>3. LongRead(inst_jtype_read(d))
  BY Fields, ClearedRead, Zenon DEF inst_jtype_read, LongRead, Read, Fits, Keys
<1>4. LongRead(inst_btype_read(d))
  BY Fields, ClearedRead, Zenon DEF inst_btype_read, LongRead, Read, Fits, Keys
<1>5. LongRead(inst_rtype_read(d))
  BY Fields, ClearedRead, Zenon DEF inst_rtype_read, LongRead, Read, Fits, Keys
<1>6. LongRead(inst_stype_read(d))
  BY Fields, ClearedRead, Zenon DEF inst_stype_read, LongRead, Read, Fits, Keys
<1>7. LongRead(inst_csrtype_read(d))
  BY Fields, ClearedRead, Zenon DEF inst_csrtype_read, LongRead, Read, Fits, Keys
<1>8. LongRead(inst_fprtype_read(d))
  BY Fields, ClearedRead, Zenon DEF inst_fprtype_read, LongRead, Read, Fits, Keys
<1>9. QED
  BY <1>1, <1>2, <1>3, <1>4, <1>5, <1>6, <1>7, <1>8

\* And every reader of a compressed instruction.
LEMMA ReadersRvc ==
  ASSUME NEW d \in Half \X Half
  PROVE  /\ ShortRead(inst_catype_read(d)) /\ ShortRead(inst_crtype_read(d))
         /\ ShortRead(inst_citype_read(d)) /\ ShortRead(inst_citype_read2(d))
         /\ ShortRead(inst_citype_read3(d)) /\ ShortRead(inst_citype_read4(d))
         /\ ShortRead(inst_citype_read5(d)) /\ ShortRead(inst_cbtype_read(d))
         /\ ShortRead(inst_cbtype_read2(d)) /\ ShortRead(inst_cstype_read(d))
         /\ ShortRead(inst_cstype_read2(d)) /\ ShortRead(inst_cjtype_read(d))
         /\ ShortRead(inst_cltype_read(d)) /\ ShortRead(inst_cltype_read2(d))
         /\ ShortRead(inst_csstype_read(d)) /\ ShortRead(inst_csstype_read2(d))
         /\ ShortRead(inst_ciwtype_read(d))
<1>1. ShortRead(inst_catype_read(d))
  BY Fields, ClearedRead, Zenon DEF inst_catype_read, ShortRead, Read, Fits, Keys
<1>2. ShortRead(inst_crtype_read(d))
  BY Fields, ClearedRead, Zenon DEF inst_crtype_read, ShortRead, Read, Fits, Keys
<1>3. ShortRead(inst_citype_read(d))
  BY Fields, ClearedRead, Zenon DEF inst_citype_read, ShortRead, Read, Fits, Keys
<1>4. ShortRead(inst_citype_read2(d))
  BY Fields, ClearedRead, Zenon DEF inst_citype_read2, ShortRead, Read, Fits, Keys
<1>5. ShortRead(inst_citype_read3(d))
  BY Fields, ClearedRead, Zenon DEF inst_citype_read3, ShortRead, Read, Fits, Keys
<1>6. ShortRead(inst_citype_read4(d))
  BY Fields, ClearedRead, Zenon DEF inst_citype_read4, ShortRead, Read, Fits, Keys
<1>7. ShortRead(inst_citype_read5(d))
  BY Fields, ClearedRead, Zenon DEF inst_citype_read5, ShortRead, Read, Fits, Keys
<1>8. ShortRead(inst_cbtype_read(d))
  BY Fields, ClearedRead, Zenon DEF inst_cbtype_read, ShortRead, Read, Fits, Keys
<1>9. ShortRead(inst_cbtype_read2(d))
  BY Fields, ClearedRead, Zenon DEF inst_cbtype_read2, ShortRead, Read, Fits, Keys
<1>10. ShortRead(inst_cstype_read(d))
  BY Fields, ClearedRead, Zenon DEF inst_cstype_read, ShortRead, Read, Fits, Keys
<1>11. ShortRead(inst_cstype_read2(d))
  BY Fields, ClearedRead, Zenon DEF inst_cstype_read2, ShortRead, Read, Fits, Keys
<1>12. ShortRead(inst_cjtype_read(d))
  BY Fields, ClearedRead, Zenon DEF inst_cjtype_read, ShortRead, Read, Fits, Keys
<1>13. ShortRead(inst_cltype_read(d))
  BY Fields, ClearedRead, Zenon DEF inst_cltype_read, ShortRead, Read, Fits, Keys
<1>14. ShortRead(inst_cltype_read2(d))
  BY Fields, ClearedRead, Zenon DEF inst_cltype_read2, ShortRead, Read, Fits, Keys
<1>15. ShortRead(inst_csstype_read(d))
  BY Fields, ClearedRead, Zenon DEF inst_csstype_read, ShortRead, Read, Fits, Keys
<1>16. ShortRead(inst_csstype_read2(d))
  BY Fields, ClearedRead, Zenon DEF inst_csstype_read2, ShortRead, Read, Fits, Keys
<1>17. ShortRead(inst_ciwtype_read(d))
  BY Fields, ClearedRead, Zenon DEF inst_ciwtype_read, ShortRead, Read, Fits, Keys
<1>18. QED
  BY <1>1, <1>2, <1>3, <1>4, <1>5, <1>6, <1>7, <1>8, <1>9, <1>10, <1>11,
     <1>12, <1>13, <1>14, <1>15, <1>16, <1>17

-----------------------------------------------------------------------------
(* The switches.                                                           *)

\* Setting the type, and registers, of what a reader returns.
LEMMA Retyped ==
  ASSUME NEW i, Read(i), NEW t \in Plain, NEW r \in Reg, NEW s \in Reg
  PROVE  /\ Decoded([i EXCEPT !.type = t])
         /\ Decoded([i EXCEPT !.type = t, !.rs1 = r])
         /\ Decoded([i EXCEPT !.type = t, !.rs2 = r])
         /\ Decoded([i EXCEPT !.type = t, !.rd = r])
         /\ Decoded([i EXCEPT !.type = t, !.rd = r, !.rs1 = s])
<1>1. Decoded([i EXCEPT !.type = t])
  BY Zenon DEF Decoded, Read, Fits, Keys
<1>2. Decoded([i EXCEPT !.type = t, !.rs1 = r])
  BY Zenon DEF Decoded, Read, Fits, Keys
<1>3. Decoded([i EXCEPT !.type = t, !.rs2 = r])
  BY Zenon DEF Decoded, Read, Fits, Keys
<1>4. Decoded([i EXCEPT !.type = t, !.rd = r])
  BY Zenon DEF Decoded, Read, Fits, Keys
<1>5. Decoded([i EXCEPT !.type = t, !.rd = r, !.rs1 = s])
  BY Zenon DEF Decoded, Read, Fits, Keys
<1>6. QED
  BY <1>1, <1>2, <1>3, <1>4, <1>5

\* The same for the jumps.
LEMMA RetypedJump ==
  ASSUME NEW i, Read(i), NEW t \in Jumps, NEW r \in Reg
  PROVE  /\ Decoded([i EXCEPT !.type = t, !.continue_exec = TRUE])
         /\ Decoded([i EXCEPT !.type = t, !.rd = r, !.continue_exec = TRUE])
         /\ Decoded([i EXCEPT !.type = t, !.continue_exec = TRUE, !.rd = r])
<1>1. Decoded([i EXCEPT !.type = t, !.continue_exec = TRUE])
  BY Zenon DEF Decoded, Read, Fits, Keys
<1>2. Decoded([i EXCEPT !.type = t, !.rd = r, !.continue_exec = TRUE])
  BY Zenon DEF Decoded, Read, Fits, Keys
<1>3. Decoded([i EXCEPT !.type = t, !.continue_exec = TRUE, !.rd = r])
  BY Zenon DEF Decoded, Read, Fits, Keys
<1>4. QED
  BY <1>1, <1>2, <1>3, Zenon

\* A failed check ends the process.
LEMMA CheckedDecoded ==
  ASSUME NEW b \in BOOLEAN, NEW i, Decoded(i)
  PROVE  Decoded(Checked(b, i))
BY Zenon DEF Checked, Decoded

\* The small registers and the names that the compressed instructions use.
LEMMA Constants ==
  /\ x0 \in Reg /\ ra \in Reg /\ sp \in Reg
  /\ {"addi", "fld", "lw", "ld", "fsd", "sw", "sd", "srli", "srai", "andi", "sub", "xor",
      "or", "and", "subw", "addw", "addiw", "lui", "beq", "bne", "slli", "add"} \subseteq Plain
BY DEF x0, ra, sp, Reg, Plain

LEMMA Quadrant0Decoded ==
  ASSUME NEW d \in Half \X Half
  PROVE  Decoded(Quadrant0(d))
<1>1. \/ COPCODE(d) = 0 \/ COPCODE(d) = 1 \/ COPCODE(d) = 2 \/ COPCODE(d) = 3
      \/ COPCODE(d) = 4 \/ COPCODE(d) = 5 \/ COPCODE(d) = 6 \/ COPCODE(d) = 7
  BY Fields
<1>2. Decoded(Illegal)
  BY DEF Decoded
<1>3. Decoded(Checked(inst_ciwtype_read(d).imm # 0,
                      [inst_ciwtype_read(d) EXCEPT !.type = "addi", !.rs1 = sp]))
  BY ReadersRvc, Constants, Retyped, CheckedDecoded, Zenon DEF ShortRead
<1>4. /\ Decoded([inst_cltype_read2(d) EXCEPT !.type = "fld"])
      /\ Decoded([inst_cltype_read(d) EXCEPT !.type = "lw"])
      /\ Decoded([inst_cltype_read2(d) EXCEPT !.type = "ld"])
      /\ Decoded([inst_cstype_read(d) EXCEPT !.type = "fsd"])
      /\ Decoded([inst_cstype_read2(d) EXCEPT !.type = "sw"])
      /\ Decoded([inst_cstype_read(d) EXCEPT !.type = "sd"])
  BY ReadersRvc, Constants, Retyped, Zenon DEF ShortRead
<1>5. QED
  BY <1>1, <1>2, <1>3, <1>4, Zenon DEF Quadrant0

LEMMA CompressedAluDecoded ==
  ASSUME NEW d \in Half \X Half
  PROVE  Decoded(CompressedAlu(d))
<1>1. CASE CFUNCT2HIGH(d) < 3
  <2>1. Case(<<"srli", "srai", "andi">>, CFUNCT2HIGH(d)) \in {"srli", "srai", "andi"}
    BY <1>1, Fields DEF Case
  <2>2. Case(<<"srli", "srai", "andi">>, CFUNCT2HIGH(d)) \in Plain
    BY <2>1, Constants, Zenon
  <2>3. Read(inst_cbtype_read2(d)) /\ inst_cbtype_read2(d).rd \in Reg
    BY ReadersRvc, ZenonT(60) DEF ShortRead, Read, Fits
  <2>4. QED
    BY <1>1, <2>2, <2>3, Retyped, Zenon DEF CompressedAlu
<1>2. CASE ~(CFUNCT2HIGH(d) < 3)
  <2> DEFINE t == IF CFUNCT1(d) = 0
                  THEN Case(<<"sub", "xor", "or", "and">>, CFUNCT2LOW(d))
                  ELSE Case(<<"subw", "addw">>, CFUNCT2LOW(d))
             i == inst_catype_read(d)
  <2>1. t \in {"sub", "xor", "or", "and", "subw", "addw", "illegal"}
    BY Fields DEF Case
  <2>2. t # "illegal" => t \in Plain
    BY <2>1, Constants, Zenon
  <2>3. Read(i) /\ i.rd \in Reg
    BY ReadersRvc, ZenonT(60) DEF ShortRead, Read, Fits
  <2>4. CompressedAlu(d) = IF t # "illegal" THEN [i EXCEPT !.type = t, !.rs1 = i.rd] ELSE Illegal
    BY <1>2, Zenon DEF CompressedAlu, Checked
  <2>5. t # "illegal" => Decoded([i EXCEPT !.type = t, !.rs1 = i.rd])
    BY <2>2, <2>3, Retyped, Zenon
  <2> HIDE DEF t, i
  <2>6. QED
    BY <2>4, <2>5, Zenon DEF Decoded
<1>3. QED
  BY <1>1, <1>2

LEMMA Quadrant1Decoded ==
  ASSUME NEW d \in Half \X Half
  PROVE  Decoded(Quadrant1(d))
<1>1. \/ COPCODE(d) = 0 \/ COPCODE(d) = 1 \/ COPCODE(d) = 2 \/ COPCODE(d) = 3
      \/ COPCODE(d) = 4 \/ COPCODE(d) = 5 \/ COPCODE(d) \in {6, 7}
  BY Fields
<1> DEFINE ci == inst_citype_read(d)
           ci3 == inst_citype_read3(d)
           ci5 == inst_citype_read5(d)
<1>2. Read(ci) /\ ci.rd \in Reg /\ Read(ci3) /\ ci3.rd \in Reg /\ Read(ci5)
  BY ReadersRvc, ZenonT(60) DEF ShortRead, Read, Fits
<1>3. /\ Decoded([ci EXCEPT !.type = "addi", !.rs1 = ci.rd])
      /\ Decoded(Checked(ci.rd # 0, [ci EXCEPT !.type = "addiw", !.rs1 = ci.rd]))
      /\ Decoded([ci EXCEPT !.type = "addi", !.rs1 = x0])
  BY <1>2, Constants, Retyped, CheckedDecoded, Zenon
<1>4. /\ Decoded(Checked(ci3.imm # 0, [ci3 EXCEPT !.type = "addi", !.rs1 = ci3.rd]))
      /\ Decoded(Checked(ci5.imm # 0, [ci5 EXCEPT !.type = "lui"]))
  BY <1>2, Constants, Retyped, CheckedDecoded, Zenon
<1>5. Decoded([inst_cjtype_read(d) EXCEPT !.type = "jal", !.rd = x0, !.continue_exec = TRUE])
  BY ReadersRvc, Constants, RetypedJump, Zenon DEF ShortRead, Jumps
<1>6. Decoded([inst_cbtype_read(d) EXCEPT !.type = IF COPCODE(d) = 6 THEN "beq" ELSE "bne",
                                          !.rs2 = x0])
  <2>1. (IF COPCODE(d) = 6 THEN "beq" ELSE "bne") \in Plain
    BY Constants, Zenon
  <2>2. QED
    BY <2>1, ReadersRvc, Constants, Retyped, Zenon DEF ShortRead
<1>7. QED
  BY <1>1, <1>3, <1>4, <1>5, <1>6, CompressedAluDecoded, Zenon DEF Quadrant1

LEMMA CompressedMoveDecoded ==
  ASSUME NEW d \in Half \X Half
  PROVE  Decoded(CompressedMove(d))
<1> DEFINE i == inst_crtype_read(d)
           r == IF CFUNCT1(d) = 0 THEN x0 ELSE ra
<1>1. Read(i) /\ i.rs1 \in Reg
  BY ReadersRvc, ZenonT(60) DEF ShortRead, Read, Fits
<1>2. r \in Reg
  BY Constants, Zenon
<1>3. Decoded(Checked(i.rs1 # 0, [i EXCEPT !.type = "jalr", !.continue_exec = TRUE, !.rd = r]))
  BY <1>1, <1>2, RetypedJump, CheckedDecoded, Zenon DEF Jumps
<1>4. /\ Decoded([i EXCEPT !.type = "add", !.rd = i.rs1, !.rs1 = x0])
      /\ Decoded([i EXCEPT !.type = "add", !.rd = i.rs1])
  BY <1>1, Constants, Retyped, Zenon
<1>5. QED
  BY <1>3, <1>4, Zenon DEF CompressedMove

LEMMA Quadrant2Decoded ==
  ASSUME NEW d \in Half \X Half
  PROVE  Decoded(Quadrant2(d))
<1>1. \/ COPCODE(d) = 0 \/ COPCODE(d) = 1 \/ COPCODE(d) = 2 \/ COPCODE(d) = 3
      \/ COPCODE(d) = 4 \/ COPCODE(d) = 5 \/ COPCODE(d) = 6 \/ COPCODE(d) = 7
  BY Fields
<1> DEFINE ci == inst_citype_read(d)
           ci2 == inst_citype_read2(d)
           ci4 == inst_citype_read4(d)
<1>2. Read(ci) /\ ci.rd \in Reg /\ Read(ci2) /\ Read(ci4)
  BY ReadersRvc, ZenonT(60) DEF ShortRead, Read, Fits
<1>3. /\ Decoded([ci EXCEPT !.type = "slli", !.rs1 = ci.rd])
      /\ Decoded([ci2 EXCEPT !.type = "fld", !.rs1 = sp])
      /\ Decoded(Checked(ci4.rd # 0, [ci4 EXCEPT !.type = "lw", !.rs1 = sp]))
      /\ Decoded(Checked(ci2.rd # 0, [ci2 EXCEPT !.type = "ld", !.rs1 = sp]))
  BY <1>2, Constants, Retyped, CheckedDecoded, Zenon
<1>4. /\ Decoded([inst_csstype_read(d) EXCEPT !.type = "fsd", !.rs1 = sp])
      /\ Decoded([inst_csstype_read2(d) EXCEPT !.type = "sw", !.rs1 = sp])
      /\ Decoded([inst_csstype_read(d) EXCEPT !.type = "sd", !.rs1 = sp])
  BY ReadersRvc, Constants, Retyped, Zenon DEF ShortRead
<1>5. QED
  BY <1>1, <1>3, <1>4, CompressedMoveDecoded, Zenon DEF Quadrant2

-----------------------------------------------------------------------------
(* Quadrant 3.                                                             *)

Kind == Plain \cup {"illegal"}

\* The types by their format.
TypesU == {"lui", "auipc"}
TypesB == {"beq", "bne", "blt", "bge", "bltu", "bgeu"}
TypesS == {"sb", "sh", "sw", "sd", "fsw", "fsd"}
TypesI == {"lb", "lh", "lw", "ld", "lbu", "lhu", "lwu", "flw", "fld", "jalr", "addi",
           "slti", "sltiu", "xori", "ori", "andi", "addiw"} \cup Shifts

KindU == Kind \cap (TypesU \cup {"illegal"})
KindB == Kind \cap (TypesB \cup {"illegal"})
KindS == Kind \cap (TypesS \cup {"illegal"})
KindI == Kind \cap (TypesI \cup {"illegal"})
KindR == Kind \ (TypesU \cup TypesB \cup TypesS \cup TypesI)

LEMMA Formats ==
  ASSUME NEW t
  PROVE  /\ t \in TypesU => Format(t) = "U"
         /\ t = "jal" => Format(t) = "J"
         /\ t \in TypesB => Format(t) = "B"
         /\ t \in TypesS => Format(t) = "S"
         /\ t \in TypesI => Format(t) = "I"
         /\ t \in KindR \cup {"ecall"} => Format(t) = "R"
<1>1. /\ t \in TypesB => t \notin TypesU /\ t # "jal"
      /\ t = "jal" => t \notin TypesU
      /\ t \in TypesS => t \notin TypesU /\ t # "jal" /\ t \notin TypesB
      /\ t \in TypesU => t # "jal" /\ t \notin TypesB /\ t \notin TypesS /\ t \notin TypesI
  BY DEF TypesU, TypesB, TypesS, TypesI, Shifts
<1>2. t \in TypesI => t \notin TypesU /\ t # "jal" /\ t \notin TypesB /\ t \notin TypesS
  BY DEF TypesU, TypesB, TypesS, TypesI, Shifts
<1>3. t \in KindR \cup {"ecall"} =>
        t \notin TypesU /\ t # "jal" /\ t \notin TypesB /\ t \notin TypesS /\ t \notin TypesI
  BY DEF TypesU, TypesB, TypesS, TypesI, Shifts, KindR, Kind, Plain
<1>4. Format(t) = CASE t \in TypesU -> "U" [] t = "jal" -> "J" [] t \in TypesB -> "B"
                    [] t \in TypesS -> "S" [] t \in TypesI -> "I" [] OTHER -> "R"
  BY Zenon DEF Format, TypesU, TypesB, TypesS, TypesI
<1>5. QED
  BY <1>1, <1>2, <1>3, <1>4, Zenon

\* The switches over funct3 that Quadrant3 has itself.
LEMMA SmallTables ==
  ASSUME NEW f \in 0 .. 7, NEW no, no = "illegal"
  PROVE  /\ Case(<<"lb", "lh", "lw", "ld", "lbu", "lhu", "lwu">>, f) \in KindI
         /\ Case(<<no, no, "flw", "fld">>, f) \in KindI
         /\ Case(<<"fence", "fence_i">>, f) \in KindR
         /\ Case(<<"sb", "sh", "sw", "sd">>, f) \in KindS
         /\ Case(<<no, no, "fsw", "fsd">>, f) \in KindS
         /\ Case(<<"beq", "bne", no, no, "blt", "bge", "bltu", "bgeu">>, f) \in KindB
         /\ Case(<<no, "csrrw", "csrrs", "csrrc", no, "csrrwi", "csrrsi", "csrrci">>, f)
              \in KindR
<1>1. {"lb", "lh", "lw", "ld", "lbu", "lhu", "lwu", "flw", "fld", "illegal"} \subseteq KindI
  BY DEF KindI, Kind, Plain, TypesI, Shifts
<1>2. {"sb", "sh", "sw", "sd", "fsw", "fsd", "illegal"} \subseteq KindS
  BY DEF KindS, Kind, Plain, TypesS
<1>3. {"beq", "bne", "blt", "bge", "bltu", "bgeu", "illegal"} \subseteq KindB
  BY DEF KindB, Kind, Plain, TypesB
<1>4. {"fence", "fence_i", "csrrw", "csrrs", "csrrc", "csrrwi", "csrrsi", "csrrci", "illegal"}
        \subseteq KindR
  BY DEF KindR, Kind, Plain, TypesU, TypesB, TypesS, TypesI, Shifts
<1>5. /\ Case(<<"lb", "lh", "lw", "ld", "lbu", "lhu", "lwu">>, f) \in KindI
      /\ Case(<<no, no, "flw", "fld">>, f) \in KindI
  BY <1>1 DEF Case
<1>6. /\ Case(<<"sb", "sh", "sw", "sd">>, f) \in KindS
      /\ Case(<<no, no, "fsw", "fsd">>, f) \in KindS
  BY <1>2 DEF Case
<1>7. Case(<<"beq", "bne", no, no, "blt", "bge", "bltu", "bgeu">>, f) \in KindB
  BY <1>3 DEF Case
<1>8. /\ Case(<<"fence", "fence_i">>, f) \in KindR
      /\ Case(<<no, "csrrw", "csrrs", "csrrc", no, "csrrwi", "csrrsi", "csrrci">>, f)
           \in KindR
  BY <1>4 DEF Case
<1>9. QED
  BY <1>5, <1>6, <1>7, <1>8

LEMMA IntegerTables ==
  ASSUME NEW d \in Half \X Half
  PROVE  /\ ImmediateType(d) \in KindI /\ ImmediateWType(d) \in KindI
         /\ RegisterType(d) \in KindR /\ RegisterWType(d) \in KindR
<1>1. FUNCT3(d) \in 0 .. 7
  BY Fields
<1>2. ImmediateType(d) \in KindI
  <2>1. {"addi", "slli", "slti", "sltiu", "xori", "srli", "srai", "ori", "andi", "illegal"}
          \subseteq KindI
    BY DEF KindI, Kind, Plain, TypesI, Shifts
  <2>2. QED
    BY <1>1, <2>1 DEF ImmediateType, Case
<1>3. ImmediateWType(d) \in KindI
  <2>1. {"addiw", "slliw", "srliw", "sraiw", "illegal"} \subseteq KindI
    BY DEF KindI, Kind, Plain, TypesI, Shifts
  <2>2. QED
    BY <2>1, Zenon DEF ImmediateWType
<1>4. RegisterType(d) \in KindR
  <2>1. {"add", "sll", "slt", "sltu", "xor", "srl", "or", "and", "mul", "mulh", "mulhsu", "mulhu",
         "div", "divu", "rem", "remu", "sub", "sra", "illegal"} \subseteq KindR
    BY DEF KindR, Kind, Plain, TypesU, TypesB, TypesS, TypesI, Shifts
  <2>2. /\ Case(<<"add", "sll", "slt", "sltu", "xor", "srl", "or", "and">>, FUNCT3(d)) \in KindR
        /\ Case(<<"mul", "mulh", "mulhsu", "mulhu", "div", "divu", "rem", "remu">>, FUNCT3(d))
             \in KindR
    BY <1>1, <2>1 DEF Case
  <2>3. QED
    BY <2>1, <2>2, Zenon DEF RegisterType
<1>5. RegisterWType(d) \in KindR
  <2> DEFINE no == "illegal"
  <2>1. {"addw", "sllw", "srlw", "mulw", "divw", "divuw", "remw", "remuw", "subw", "sraw", no}
          \subseteq KindR
    BY DEF KindR, Kind, Plain, TypesU, TypesB, TypesS, TypesI, Shifts
  <2>2. /\ Case(<<"addw", "sllw", no, no, no, "srlw">>, FUNCT3(d)) \in KindR
        /\ Case(<<"mulw", no, no, no, "divw", "divuw", "remw", "remuw">>, FUNCT3(d)) \in KindR
        /\ Case(<<"subw", no, no, no, no, "sraw">>, FUNCT3(d)) \in KindR
    BY <1>1, <2>1 DEF Case
  <2>3. QED
    BY <2>1, <2>2, Zenon DEF RegisterWType
<1>6. QED
  BY <1>2, <1>3, <1>4, <1>5

LEMMA FloatTables ==
  ASSUME NEW d \in Half \X Half
  PROVE  /\ FloatConvertType(d) \in KindR /\ FloatType(d) \in KindR
         /\ OPCODE(d) \in 16 .. 19 => FusedType(d) \in KindR
<1>1. FUNCT3(d) \in 0 .. 7 /\ RS2(d) \in 0 .. 31 /\ FUNCT7(d) \in 0 .. 127
      /\ FUNCT2(d) \in 0 .. 3
  BY Fields DEF Reg
<1>2. FloatConvertType(d) \in KindR
  <2>1. {"fcvt_w_s", "fcvt_wu_s", "fcvt_l_s", "fcvt_lu_s", "fcvt_w_d", "fcvt_wu_d", "fcvt_l_d",
         "fcvt_lu_d", "fcvt_s_w", "fcvt_s_wu", "fcvt_s_l", "fcvt_s_lu", "fcvt_d_w", "fcvt_d_wu",
         "fcvt_d_l", "fcvt_d_lu", "fmv_x_w", "fclass_s", "fmv_x_d", "fclass_d", "fmv_w_x",
         "fmv_d_x", "illegal"} \subseteq KindR
    BY DEF KindR, Kind, Plain, TypesU, TypesB, TypesS, TypesI, Shifts
  <2>2. /\ Case(<<"fcvt_w_s", "fcvt_wu_s", "fcvt_l_s", "fcvt_lu_s">>, RS2(d)) \in KindR
        /\ Case(<<"fcvt_w_d", "fcvt_wu_d", "fcvt_l_d", "fcvt_lu_d">>, RS2(d)) \in KindR
        /\ Case(<<"fcvt_s_w", "fcvt_s_wu", "fcvt_s_l", "fcvt_s_lu">>, RS2(d)) \in KindR
        /\ Case(<<"fcvt_d_w", "fcvt_d_wu", "fcvt_d_l", "fcvt_d_lu">>, RS2(d)) \in KindR
    BY <1>1, <2>1 DEF Case
  <2>3. /\ Case(<<"fmv_x_w", "fclass_s">>, FUNCT3(d)) \in KindR
        /\ Case(<<"fmv_x_d", "fclass_d">>, FUNCT3(d)) \in KindR
        /\ Case(<<"fmv_w_x">>, FUNCT3(d)) \in KindR /\ Case(<<"fmv_d_x">>, FUNCT3(d)) \in KindR
    BY <1>1, <2>1 DEF Case
  <2>4. QED
    BY <2>1, <2>2, <2>3, Zenon DEF FloatConvertType
<1>3. FloatType(d) \in KindR
  <2>1. {"fadd_s", "fsub_s", "fmul_s", "fdiv_s", "fadd_d", "fsub_d", "fmul_d", "fdiv_d",
         "fsgnj_s", "fsgnjn_s", "fsgnjx_s", "fsgnj_d", "fsgnjn_d", "fsgnjx_d", "fmin_s", "fmax_s",
         "fmin_d", "fmax_d", "fle_s", "flt_s", "feq_s", "fle_d", "flt_d", "feq_d", "fcvt_s_d",
         "fcvt_d_s", "fsqrt_s", "fsqrt_d", "illegal"} \subseteq KindR
    BY DEF KindR, Kind, Plain, TypesU, TypesB, TypesS, TypesI, Shifts
  <2>2. /\ Case(<<"fadd_s", "fsub_s", "fmul_s", "fdiv_s">>, FUNCT7(d) \div 4) \in KindR
        /\ Case(<<"fadd_d", "fsub_d", "fmul_d", "fdiv_d">>, FUNCT7(d) \div 4) \in KindR
    <3>1. PICK k \in Nat : k = FUNCT7(d) \div 4
      BY <1>1
    <3>2. QED
      BY <2>1, <3>1 DEF Case
  <2>3. /\ Case(<<"fsgnj_s", "fsgnjn_s", "fsgnjx_s">>, FUNCT3(d)) \in KindR
        /\ Case(<<"fsgnj_d", "fsgnjn_d", "fsgnjx_d">>, FUNCT3(d)) \in KindR
        /\ Case(<<"fmin_s", "fmax_s">>, FUNCT3(d)) \in KindR
        /\ Case(<<"fmin_d", "fmax_d">>, FUNCT3(d)) \in KindR
        /\ Case(<<"fle_s", "flt_s", "feq_s">>, FUNCT3(d)) \in KindR
        /\ Case(<<"fle_d", "flt_d", "feq_d">>, FUNCT3(d)) \in KindR
    BY <1>1, <2>1 DEF Case
  <2>4. /\ Case(<<"illegal", "fcvt_s_d">>, RS2(d)) \in KindR
        /\ Case(<<"fcvt_d_s">>, RS2(d)) \in KindR
        /\ Case(<<"fsqrt_s">>, RS2(d)) \in KindR /\ Case(<<"fsqrt_d">>, RS2(d)) \in KindR
    BY <1>1, <2>1 DEF Case
  <2>5. QED
    BY <1>2, <2>2, <2>3, <2>4, Zenon DEF FloatType
<1>4. ASSUME OPCODE(d) \in 16 .. 19 PROVE FusedType(d) \in KindR
  <2>1. {"fmadd_s", "fmadd_d", "fmsub_s", "fmsub_d", "fnmsub_s", "fnmsub_d", "fnmadd_s",
         "fnmadd_d", "illegal"} \subseteq KindR
    BY DEF KindR, Kind, Plain, TypesU, TypesB, TypesS, TypesI, Shifts
  <2>2. /\ Case(<<"fmadd_s", "fmadd_d">>, FUNCT2(d)) \in KindR
        /\ Case(<<"fmsub_s", "fmsub_d">>, FUNCT2(d)) \in KindR
        /\ Case(<<"fnmsub_s", "fnmsub_d">>, FUNCT2(d)) \in KindR
        /\ Case(<<"fnmadd_s", "fnmadd_d">>, FUNCT2(d)) \in KindR
    BY <1>1, <2>1 DEF Case
  <2>3. PICK k \in 1 .. 4 : k = OPCODE(d) - 15
    BY <1>4
  <2>4. \/ FusedType(d) = Case(<<"fmadd_s", "fmadd_d">>, FUNCT2(d))
        \/ FusedType(d) = Case(<<"fmsub_s", "fmsub_d">>, FUNCT2(d))
        \/ FusedType(d) = Case(<<"fnmsub_s", "fnmsub_d">>, FUNCT2(d))
        \/ FusedType(d) = Case(<<"fnmadd_s", "fnmadd_d">>, FUNCT2(d))
    BY <2>3 DEF FusedType
  <2>5. QED
    BY <2>2, <2>4, Zenon
<1>5. QED
  BY <1>2, <1>3, <1>4

LEMMA TypedDecoded ==
  ASSUME NEW i, Read(i), NEW t \in Kind
  PROVE  Decoded(Typed(t, i))
<1>1. CASE t = "illegal"
  BY <1>1, Zenon DEF Typed, Checked, Decoded
<1>2. CASE t # "illegal"
  <2>1. Typed(t, i) = [i EXCEPT !.type = t] /\ t \in Plain
    BY <1>2, Zenon DEF Typed, Checked, Kind
  <2>2. Decoded([i EXCEPT !.type = t])
    BY <2>1, Retyped, Constants, Zenon
  <2>3. QED
    BY <2>1, <2>2, Zenon
<1>3. QED
  BY <1>1, <1>2

LEMMA OpcodesDecoded ==
  ASSUME NEW d \in Half \X Half
  PROVE  Decoded(Opcodes(d))
<1> DEFINE no == "illegal"
           f3 == FUNCT3(d)
           i == inst_itype_read(d)
           s == inst_stype_read(d)
<1>1. FUNCT3(d) \in 0 .. 7
  BY Fields
<1>2. /\ Decoded(Typed(Case(<<"lb", "lh", "lw", "ld", "lbu", "lhu", "lwu">>, f3), i))
      /\ Decoded(Typed(Case(<<no, no, "flw", "fld">>, f3), i))
      /\ Decoded(Typed(Case(<<"fence", "fence_i">>, f3), Cleared))
      /\ Decoded(Typed(Case(<<"sb", "sh", "sw", "sd">>, f3), s))
      /\ Decoded(Typed(Case(<<no, no, "fsw", "fsd">>, f3), s))
      /\ Decoded(Typed(Case(<<"beq", "bne", no, no, "blt", "bge", "bltu", "bgeu">>, f3),
                       inst_btype_read(d)))
      /\ Decoded(Typed(Case(<<no, "csrrw", "csrrs", "csrrc", no, "csrrwi", "csrrsi", "csrrci">>,
                            f3), inst_csrtype_read(d)))
  BY <1>1, SmallTables, Readers32, ClearedRead, TypedDecoded, Zenon
     DEF LongRead, KindI, KindS, KindB, KindR
<1>3. /\ Decoded(Typed(ImmediateType(d), i)) /\ Decoded(Typed(ImmediateWType(d), i))
      /\ Decoded(Typed(RegisterType(d), inst_rtype_read(d)))
      /\ Decoded(Typed(RegisterWType(d), inst_rtype_read(d)))
      /\ Decoded(Typed(FloatType(d), inst_rtype_read(d)))
      /\ OPCODE(d) \in 16 .. 19 => Decoded(Typed(FusedType(d), inst_fprtype_read(d)))
  BY IntegerTables, FloatTables, Readers32, TypedDecoded, Zenon
     DEF LongRead, KindI, KindS, KindB, KindR
<1>4. /\ Decoded(Typed("auipc", inst_utype_read(d))) /\ Decoded(Typed("lui", inst_utype_read(d)))
  <2>1. "auipc" \in Kind /\ "lui" \in Kind
    BY DEF Kind, Plain
  <2>2. QED
    BY <2>1, Readers32, TypedDecoded, Zenon DEF LongRead
<1>5. /\ Decoded([i EXCEPT !.type = "jalr", !.continue_exec = TRUE])
      /\ Decoded([inst_jtype_read(d) EXCEPT !.type = "jal", !.continue_exec = TRUE])
  BY Readers32, RetypedJump, Constants, Zenon DEF LongRead, Jumps
<1>6. Decoded(Illegal)
  BY Zenon DEF Decoded
<1>7. QED
  BY <1>2, <1>3, <1>4, <1>5, <1>6, Zenon DEF Opcodes

-----------------------------------------------------------------------------
(* decode_inst and its specification.                                      *)

\* An instruction other than ecall does not depend on the struct before it.
LEMMA DecodedWord ==
  ASSUME NEW d \in Half \X Half, NEW old, d # EcallWord
  PROVE  Decoded(decode_inst(old, d)) /\ decode_inst(old, d) = decode_inst(Cleared, d)
<1>1. QUADRANT(d) = 0 \/ QUADRANT(d) = 1 \/ QUADRANT(d) = 2 \/ QUADRANT(d) = 3
  BY Fields
<1>2. Quadrant3(old, d) = Opcodes(d) /\ Quadrant3(Cleared, d) = Opcodes(d)
  BY Zenon DEF Quadrant3
<1>3. Decoded(decode_inst(old, d))
  BY <1>1, <1>2, Quadrant0Decoded, Quadrant1Decoded, Quadrant2Decoded, OpcodesDecoded, Zenon
     DEF decode_inst
<1>4. decode_inst(old, d) = decode_inst(Cleared, d)
  BY <1>1, <1>2, Zenon DEF decode_inst
<1>5. QED
  BY <1>3, <1>4

\* ecall keeps what the struct holds.
LEMMA DecodedEcall ==
  ASSUME NEW old
  PROVE  decode_inst(old, EcallWord) = [old EXCEPT !.type = "ecall", !.continue_exec = TRUE]
<1>1. QUADRANT(EcallWord) = 3
  BY DEF QUADRANT, Bits, EcallWord
<1>2. QUADRANT(EcallWord) # 0 /\ QUADRANT(EcallWord) # 1 /\ QUADRANT(EcallWord) # 2
  BY <1>1
<1>3. QED
  BY <1>1, <1>2, Zenon DEF decode_inst, Quadrant3

\* The struct is cleared before the first instruction, and afterwards decoded.
DecodeInv ==
  /\ data \in Half \X Half
  /\ ctl \in {"fetched", "decoded", "fatal"}
  /\ ctl # "decoded" => inst = Cleared
  /\ ctl = "decoded" => inst = decode_inst(Cleared, data) /\ inst # Illegal

LEMMA DecodeInvariant == Spec => []DecodeInv
<1>1. Init => DecodeInv
  BY WordsAssumption, Zenon DEF Init, DecodeInv
<1>2. DecodeInv /\ [Next]_vars => DecodeInv'
  BY Zenon DEF DecodeInv, Next, Decode, Fatal, Returned, vars
<1>3. QED
  BY <1>1, <1>2, PTL DEF Spec

\* What decode_inst has left in the struct.
LEMMA DecodedInst ==
  ASSUME DecodeInv, ctl = "decoded"
  PROVE  /\ Fits(inst)
         /\ \/ data # EcallWord /\ inst.type \in Plain /\ inst.continue_exec = FALSE
            \/ data # EcallWord /\ inst.type \in Jumps /\ inst.continue_exec = TRUE
            \/ data = EcallWord /\ inst.type = "ecall" /\ inst.continue_exec = TRUE
<1>1. inst = decode_inst(Cleared, data) /\ inst # Illegal /\ data \in Half \X Half
  BY Zenon DEF DecodeInv
<1>2. CASE data = EcallWord
  <2>1. inst = [Cleared EXCEPT !.type = "ecall", !.continue_exec = TRUE]
    BY <1>1, <1>2, DecodedEcall, Zenon
  <2>2. QED
    BY <1>2, <2>1, ClearedRead, Zenon DEF LongRead, Read, Fits, Keys
<1>3. CASE data # EcallWord
  <2>1. Decoded(inst)
    BY <1>1, <1>3, DecodedWord, Zenon
  <2>2. QED
    BY <1>1, <1>3, <2>1, Zenon DEF Decoded
<1>4. QED
  BY <1>2, <1>3, Zenon

\* For every word, decode_inst leaves numbers of registers that exist, also where
\* a reader adds 8 to three bits or assembles the number from both halves.
THEOREM FieldsInRange == Spec => []TypeOK
<1>1. DecodeInv => TypeOK
  <2>1. SUFFICES ASSUME DecodeInv PROVE TypeOK
    OBVIOUS
  <2>2. Fits(inst) /\ inst.continue_exec \in BOOLEAN
    <3>1. CASE ctl = "decoded"
      BY <2>1, <3>1, DecodedInst, Zenon
    <3>2. CASE ctl # "decoded"
      BY <2>1, <3>2, ClearedRead, Zenon DEF LongRead, DecodeInv, Read
    <3>3. QED
      BY <3>1, <3>2, Zenon
  <2>3. QED
    BY <2>1, <2>2, Zenon DEF TypeOK, DecodeInv, Fits, Reg, Csr
<1>2. QED
  BY <1>1, DecodeInvariant, PTL

\* For every word, what decode_inst leaves in the static inst_t does not depend on
\* the instruction before, and continue_exec is set by jal, jalr and ecall only.
THEOREM NothingLeftOver == Spec => []NothingStale
<1>1. DecodeInv => NothingStale
  <2>1. SUFFICES ASSUME DecodeInv, ctl = "decoded"
                 PROVE  /\ IF inst.type = "ecall"
                           THEN /\ decode_inst(Leftover, data).type = "ecall"
                                /\ decode_inst(Leftover, data).continue_exec
                           ELSE decode_inst(Leftover, data) = inst
                        /\ inst.continue_exec <=> inst.type \in {"jal", "jalr", "ecall"}
    BY Zenon DEF NothingStale
  <2>2. inst = decode_inst(Cleared, data) /\ data \in Half \X Half
    BY <2>1, Zenon DEF DecodeInv
  <2>3. "jal" \notin Plain /\ "jalr" \notin Plain /\ "ecall" \notin Plain
    BY DEF Plain
  <2>4. inst.continue_exec <=> inst.type \in {"jal", "jalr", "ecall"}
    BY <2>1, <2>3, DecodedInst, Zenon DEF Jumps
  <2>5. CASE data = EcallWord
    <3>1. decode_inst(Leftover, data) =
            [Leftover EXCEPT !.type = "ecall", !.continue_exec = TRUE]
      BY <2>5, DecodedEcall, Zenon
    <3>2. /\ decode_inst(Leftover, data).type = "ecall"
          /\ decode_inst(Leftover, data).continue_exec = TRUE
      <4>1. DOMAIN Leftover = Keys
        BY DEF Leftover, Keys
      <4>2. QED
        BY <3>1, <4>1, Zenon DEF Keys
    <3>3. inst.type = "ecall"
      BY <2>1, <2>5, DecodedInst, Zenon
    <3>4. QED
      BY <2>4, <3>2, <3>3, Zenon
  <2>6. CASE data # EcallWord
    <3>1. decode_inst(Leftover, data) = inst
      BY <2>2, <2>6, DecodedWord, Zenon
    <3>2. inst.type # "ecall"
      BY <2>1, <2>3, <2>6, DecodedInst, Zenon DEF Jumps
    <3>3. QED
      BY <2>4, <3>1, <3>2, Zenon
  <2>7. QED
    BY <2>5, <2>6, Zenon
<1>2. QED
  BY <1>1, DecodeInvariant, PTL

\* Every instruction that decode_inst accepts, of all words, runs the handler of its
\* name: the 133 rows of funcs are in the order of inst_type_t, but for the six csr
\* handlers, which are the same.
THEOREM HandlersMatch == Spec => []OwnHandler
<1>1. DecodeInv => OwnHandler
  <2>1. SUFFICES ASSUME DecodeInv, ctl = "decoded"
                 PROVE  \/ Handler(inst.type) = inst.type
                        \/ Handler(inst.type) = "empty" /\ inst.type \in {"fence", "fence_i"}
                        \/ {Handler(inst.type), inst.type} \subseteq CsrHandlers
    BY Zenon DEF OwnHandler
  <2>2. inst.type \in Plain \cup Jumps \cup {"ecall"}
    BY <2>1, DecodedInst, Zenon
  <2>3. QED
    BY <2>2, HandlerOfType, Zenon
<1>2. QED
  BY <1>1, DecodeInvariant, PTL
-----------------------------------------------------------------------------
(* The bits of a word and of an immediate.                                 *)

Bit == 0 .. 1

\* Shifting by one more place.
LEMMA Twice ==
  ASSUME NEW a \in Int, NEW n \in Nat \ {0}
  PROVE  a \div (2 * n) = (a \div n) \div 2
<1>1. PICK p \in Int, r \in Int : p = a \div n /\ a = n * p + r /\ 0 <= r /\ r < n
  <2>1. a = n * (a \div n) + (a % n) /\ 0 <= a % n /\ a % n < n /\ a \div n \in Int /\ a % n \in Int
    OBVIOUS
  <2>2. QED
    BY <2>1
<1>2. PICK w \in Int, e \in 0 .. 1 : w = p \div 2 /\ p = 2 * w + e
  OBVIOUS
<1>3. PICK m \in Int : m = w * n
  OBVIOUS
<1>4. n * p = 2 * m + n * e
  BY <1>2, <1>3
<1>5. PICK u \in Int : u = n * e + r /\ 0 <= u /\ u < 2 * n
  <2>1. CASE e = 0
    BY <1>1, <2>1
  <2>2. CASE e = 1
    BY <1>1, <2>2
  <2>3. QED
    BY <2>1, <2>2
<1>6. a = w * (2 * n) + u
  <2>1. a = 2 * m + u
    BY <1>1, <1>4, <1>5
  <2>2. 2 * m = w * (2 * n)
    BY <1>3
  <2>3. QED
    BY <2>1, <2>2
<1>7. \A k \in Nat \ {0} : \A i, j \in Int : 0 <= j /\ j < k => (i * k + j) \div k = i
  OBVIOUS
<1>8. (w * (2 * n) + u) \div (2 * n) = w
  BY <1>5, <1>7
<1>9. QED
  BY <1>1, <1>2, <1>6, <1>8

\* Cutting to one more bit.
LEMMA Cut ==
  ASSUME NEW q \in Int, NEW m \in Nat \ {0}
  PROVE  q % (2 * m) = (q % 2) + 2 * ((q \div 2) % m)
<1>1. PICK w \in Int, e \in 0 .. 1 : w = q \div 2 /\ e = q % 2 /\ q = 2 * w + e
  OBVIOUS
<1>2. PICK v \in Int, s \in Int : s = w % m /\ w = m * v + s /\ 0 <= s /\ s < m
  <2>1. w = m * (w \div m) + (w % m) /\ 0 <= w % m /\ w % m < m /\ w \div m \in Int /\ w % m \in Int
    OBVIOUS
  <2>2. QED
    BY <2>1
<1>3. q = v * (2 * m) + (2 * s + e)
  <2>1. PICK z \in Int : z = m * v
    OBVIOUS
  <2>2. q = 2 * z + 2 * s + e
    BY <1>1, <1>2, <2>1
  <2>3. 2 * z = v * (2 * m)
    BY <2>1
  <2>4. QED
    BY <2>2, <2>3
<1>4. \A k \in Nat \ {0} : \A i, j \in Int : 0 <= j /\ j < k => (i * k + j) % k = j
  OBVIOUS
<1>5. 2 * s + e \in Int /\ 0 <= 2 * s + e /\ 2 * s + e < 2 * m /\ 2 * m \in Nat \ {0}
  BY <1>2
<1>6. (v * (2 * m) + (2 * s + e)) % (2 * m) = 2 * s + e
  BY <1>4, <1>5
<1>7. QED
  BY <1>1, <1>2, <1>3, <1>6

\* The powers of two in the widths of a word.
LEMMA Powers ==
  ASSUME NEW k \in 0 .. 31
  PROVE  2^k \in Nat \ {0} /\ 2^(k + 1) = 2 * 2^k
<1>1. /\ 2^0 \in Nat \ {0} /\ 2^(0 + 1) = 2 * 2^0 /\ 2^1 \in Nat \ {0} /\ 2^(1 + 1) = 2 * 2^1
      /\ 2^2 \in Nat \ {0} /\ 2^(2 + 1) = 2 * 2^2 /\ 2^3 \in Nat \ {0} /\ 2^(3 + 1) = 2 * 2^3
      /\ 2^4 \in Nat \ {0} /\ 2^(4 + 1) = 2 * 2^4 /\ 2^5 \in Nat \ {0} /\ 2^(5 + 1) = 2 * 2^5
      /\ 2^6 \in Nat \ {0} /\ 2^(6 + 1) = 2 * 2^6 /\ 2^7 \in Nat \ {0} /\ 2^(7 + 1) = 2 * 2^7
      /\ 2^8 \in Nat \ {0} /\ 2^(8 + 1) = 2 * 2^8 /\ 2^9 \in Nat \ {0} /\ 2^(9 + 1) = 2 * 2^9
      /\ 2^10 \in Nat \ {0} /\ 2^(10 + 1) = 2 * 2^10 /\ 2^11 \in Nat \ {0} /\ 2^(11 + 1) = 2 * 2^11
      /\ 2^12 \in Nat \ {0} /\ 2^(12 + 1) = 2 * 2^12 /\ 2^13 \in Nat \ {0} /\ 2^(13 + 1) = 2 * 2^13
      /\ 2^14 \in Nat \ {0} /\ 2^(14 + 1) = 2 * 2^14 /\ 2^15 \in Nat \ {0} /\ 2^(15 + 1) = 2 * 2^15
      /\ 2^16 \in Nat \ {0} /\ 2^(16 + 1) = 2 * 2^16 /\ 2^17 \in Nat \ {0} /\ 2^(17 + 1) = 2 * 2^17
      /\ 2^18 \in Nat \ {0} /\ 2^(18 + 1) = 2 * 2^18 /\ 2^19 \in Nat \ {0} /\ 2^(19 + 1) = 2 * 2^19
      /\ 2^20 \in Nat \ {0} /\ 2^(20 + 1) = 2 * 2^20 /\ 2^21 \in Nat \ {0} /\ 2^(21 + 1) = 2 * 2^21
      /\ 2^22 \in Nat \ {0} /\ 2^(22 + 1) = 2 * 2^22 /\ 2^23 \in Nat \ {0} /\ 2^(23 + 1) = 2 * 2^23
      /\ 2^24 \in Nat \ {0} /\ 2^(24 + 1) = 2 * 2^24 /\ 2^25 \in Nat \ {0} /\ 2^(25 + 1) = 2 * 2^25
      /\ 2^26 \in Nat \ {0} /\ 2^(26 + 1) = 2 * 2^26 /\ 2^27 \in Nat \ {0} /\ 2^(27 + 1) = 2 * 2^27
      /\ 2^28 \in Nat \ {0} /\ 2^(28 + 1) = 2 * 2^28 /\ 2^29 \in Nat \ {0} /\ 2^(29 + 1) = 2 * 2^29
      /\ 2^30 \in Nat \ {0} /\ 2^(30 + 1) = 2 * 2^30 /\ 2^31 \in Nat \ {0} /\ 2^(31 + 1) = 2 * 2^31
  OBVIOUS
<1>2. \/ k = 0 \/ k = 1 \/ k = 2 \/ k = 3 \/ k = 4 \/ k = 5 \/ k = 6 \/ k = 7
      \/ k = 8 \/ k = 9 \/ k = 10 \/ k = 11 \/ k = 12 \/ k = 13 \/ k = 14 \/ k = 15
      \/ k = 16 \/ k = 17 \/ k = 18 \/ k = 19 \/ k = 20 \/ k = 21 \/ k = 22 \/ k = 23
      \/ k = 24 \/ k = 25 \/ k = 26 \/ k = 27 \/ k = 28 \/ k = 29 \/ k = 30 \/ k = 31
  OBVIOUS
<1>3. QED
  BY <1>1, <1>2, ZenonT(60)

LEMMA ShiftOnce ==
  ASSUME NEW v \in Int, NEW k \in 0 .. 31
  PROVE  v \div 2^k \in Int /\ v \div 2^(k + 1) = (v \div 2^k) \div 2
<1>1. PICK p \in Nat \ {0} : p = 2^k /\ 2^(k + 1) = 2 * p
  BY Powers, Zenon
<1>2. v \div p \in Int
  OBVIOUS
<1>3. v \div (2 * p) = (v \div p) \div 2
  BY Twice
<1>4. QED
  BY <1>1, <1>2, <1>3, Zenon

LEMMA CutOnce ==
  ASSUME NEW q \in Int, NEW k \in 0 .. 31
  PROVE  q % 2^(k + 1) = (q % 2) + 2 * ((q \div 2) % 2^k)
<1>1. PICK p \in Nat \ {0} : p = 2^k /\ 2^(k + 1) = 2 * p
  BY Powers, Zenon
<1>2. q % (2 * p) = (q % 2) + 2 * ((q \div 2) % p)
  BY Cut
<1>3. QED
  BY <1>1, <1>2, Zenon

\* A field is its lowest bit and twice the rest.
LEMMA Peel ==
  ASSUME NEW d \in Half \X Half, NEW lo \in 0 .. 31, NEW n \in 1 .. 31, lo + n < 32
  PROVE  Bits(d, lo, n + 1) = Bits(d, lo, 1) + 2 * Bits(d, lo + 1, n)
<1>1. PICK a \in Int, c \in Int : a = d[1] /\ c = d[2] /\ 0 <= a /\ a < 65536 /\ 0 <= c
  BY Halves
<1>2. n \in 0 .. 31 /\ 2^1 = 2 /\ 2^0 = 1
  OBVIOUS
<1>3. CASE lo >= 16
  <2>1. PICK k \in 0 .. 31 : k = lo - 16 /\ lo + 1 - 16 = k + 1
    BY <1>3
  <2>2. PICK q \in Int : q = c \div 2^k /\ c \div 2^(k + 1) = q \div 2
    <3>1. c \div 2^k \in Int /\ c \div 2^(k + 1) = (c \div 2^k) \div 2
      BY ShiftOnce, Zenon
    <3>2. QED
      BY <3>1, Zenon
  <2>3. /\ Bits(d, lo, n + 1) = (c \div 2^k) % 2^(n + 1)
        /\ Bits(d, lo, 1) = (c \div 2^k) % 2^1
        /\ Bits(d, lo + 1, n) = (c \div 2^(k + 1)) % 2^n
    BY <1>1, <1>3, <2>1 DEF Bits
  <2>4. q % 2^(n + 1) = (q % 2) + 2 * ((q \div 2) % 2^n)
    BY <1>2, CutOnce, Zenon
  <2>5. QED
    BY <1>2, <2>2, <2>3, <2>4, Zenon
<1>4. CASE lo + n + 1 <= 16
  <2>1. PICK q \in Int : q = a \div 2^lo /\ a \div 2^(lo + 1) = q \div 2
    <3>1. a \div 2^lo \in Int /\ a \div 2^(lo + 1) = (a \div 2^lo) \div 2
      BY ShiftOnce, Zenon
    <3>2. QED
      BY <3>1, Zenon
  <2>2. /\ Bits(d, lo, n + 1) = (a \div 2^lo) % 2^(n + 1)
        /\ Bits(d, lo, 1) = (a \div 2^lo) % 2^1
        /\ Bits(d, lo + 1, n) = (a \div 2^(lo + 1)) % 2^n
    BY <1>1, <1>4 DEF Bits
  <2>3. q % 2^(n + 1) = (q % 2) + 2 * ((q \div 2) % 2^n)
    BY <1>2, CutOnce, Zenon
  <2>4. QED
    BY <1>2, <2>1, <2>2, <2>3, Zenon
<1>5. CASE lo < 16 /\ lo + n + 1 > 16
  <2>1. PICK m \in 0 .. 31 : m = lo + n + 1 - 16 /\ m = lo + (n + 1) - 16 /\ m = lo + 1 + n - 16
    BY <1>5
  <2>2. PICK k \in 0 .. 31 : k = 15 - lo /\ k + 1 = 16 - lo /\ k = 16 - (lo + 1)
    BY <1>5
  <2>3. PICK p \in Nat \ {0} : p = 2^k /\ 2^(k + 1) = 2 * p
    BY Powers, Zenon
  <2>4. PICK y \in Int : y = c % 2^m
    <3>1. \A z \in Nat \ {0} : c % z \in Int
      BY <1>1
    <3>2. QED
      BY <3>1, Powers, Zenon
  <2>5. PICK q \in Int : q = a \div 2^lo /\ a \div 2^(lo + 1) = q \div 2
    <3>1. a \div 2^lo \in Int /\ a \div 2^(lo + 1) = (a \div 2^lo) \div 2
      BY ShiftOnce, Zenon
    <3>2. QED
      BY <3>1, Zenon
  <2>6. Bits(d, lo, n + 1) = (a \div 2^lo) + (c % 2^m) * 2^(k + 1)
    BY <1>1, <1>5, <2>1, <2>2 DEF Bits
  <2>7. Bits(d, lo, 1) = (a \div 2^lo) % 2^1
    BY <1>1, <1>5 DEF Bits
  <2>8. Bits(d, lo + 1, n) = (q \div 2) + y * p
    <3>1. CASE lo = 15
      <4>1. m = n /\ k = 0
        BY <2>1, <2>2, <3>1
      <4>2. q = a \div 32768 /\ p = 1
        <5>1. 2^15 = 32768
          OBVIOUS
        <5>2. q = a \div 2^15 /\ p = 2^0
          BY <2>3, <2>5, <3>1, <4>1, Zenon
        <5>3. QED
          BY <1>2, <5>1, <5>2
      <4>3. q \div 2 = 0
        BY <1>1, <4>2
      <4>4. Bits(d, lo + 1, n) = (c \div 2^0) % 2^n
        BY <1>1, <3>1 DEF Bits
      <4>5. c \div 1 = c
        BY <1>1
      <4>6. Bits(d, lo + 1, n) = y
        BY <1>2, <2>4, <4>1, <4>4, <4>5, Zenon
      <4>7. QED
        BY <4>2, <4>3, <4>6
    <3>2. CASE lo < 15
      <4>1. Bits(d, lo + 1, n) = (a \div 2^(lo + 1)) + (c % 2^m) * 2^k
        BY <1>1, <1>5, <2>1, <2>2, <3>2 DEF Bits
      <4>2. QED
        BY <2>3, <2>4, <2>5, <4>1, Zenon
    <3>3. QED
      BY <1>5, <3>1, <3>2
  <2>9. Bits(d, lo, n + 1) = q + y * (2 * p) /\ Bits(d, lo, 1) = q % 2
    BY <1>2, <2>3, <2>4, <2>5, <2>6, <2>7, Zenon
  <2>10. q = (q % 2) + 2 * (q \div 2) /\ y * (2 * p) = 2 * (y * p)
    OBVIOUS
  <2>11. PICK e \in Int, h \in Int, z \in Int : e = q % 2 /\ h = q \div 2 /\ z = y * p
    OBVIOUS
  <2>12. q + y * (2 * p) = e + 2 * (h + z)
    <3>1. q = e + 2 * h /\ y * (2 * p) = 2 * z
      BY <2>10, <2>11, Zenon
    <3>2. PICK w \in Int : w = y * (2 * p)
      OBVIOUS
    <3>3. QED
      BY <3>1, <3>2
  <2>13. QED
    BY <2>8, <2>9, <2>11, <2>12, Zenon
<1>6. QED
  BY <1>3, <1>4, <1>5

\* A field of one bit is a bit.
LEMMA OneBit ==
  ASSUME NEW d \in Half \X Half, NEW i \in 0 .. 31
  PROVE  Bits(d, i, 1) \in Bit
<1>1. PICK a \in Int, c \in Int : a = d[1] /\ c = d[2]
  BY Halves
<1>2. \A q \in Int : q % 2 \in Bit
  BY DEF Bit
<1>3. 2^1 = 2
  OBVIOUS
<1>4. CASE i >= 16
  <2>1. PICK k \in 0 .. 31 : k = i - 16
    BY <1>4
  <2>2. Bits(d, i, 1) = (c \div 2^k) % 2^1
    BY <1>1, <1>4, <2>1 DEF Bits
  <2>3. c \div 2^k \in Int
    BY ShiftOnce, Zenon
  <2>4. QED
    BY <1>2, <1>3, <2>2, <2>3, Zenon
<1>5. CASE i < 16
  <2>1. Bits(d, i, 1) = (a \div 2^i) % 2^1
    BY <1>1, <1>5 DEF Bits
  <2>2. a \div 2^i \in Int
    BY ShiftOnce, Zenon
  <2>3. QED
    BY <1>2, <1>3, <2>1, <2>2, Zenon
<1>6. QED
  BY <1>4, <1>5

\* An induction over the sizes of a field.
LEMMA Unrolled ==
  ASSUME NEW S, 1 \in S, \A m \in 1 .. 31 : m \in S => m + 1 \in S
  PROVE  1 .. 32 \subseteq S
<1>1. 2 \in S /\ 3 \in S /\ 4 \in S /\ 5 \in S /\ 6 \in S /\ 7 \in S /\ 8 \in S
  OBVIOUS
<1>2. /\ 9 \in S /\ 10 \in S /\ 11 \in S /\ 12 \in S /\ 13 \in S /\ 14 \in S /\ 15 \in S
      /\ 16 \in S
  BY <1>1
<1>3. /\ 17 \in S /\ 18 \in S /\ 19 \in S /\ 20 \in S /\ 21 \in S /\ 22 \in S /\ 23 \in S
      /\ 24 \in S
  BY <1>2
<1>4. /\ 25 \in S /\ 26 \in S /\ 27 \in S /\ 28 \in S /\ 29 \in S /\ 30 \in S /\ 31 \in S
      /\ 32 \in S
  BY <1>3
<1>5. QED
  BY <1>1, <1>2, <1>3, <1>4

\* Bit k of a number in two's complement.
Digit(v, k) == (v \div 2^k) % 2

\* A number with the bit e below the bits of w.
LEMMA Below ==
  ASSUME NEW w \in Int, NEW e \in Bit, NEW k \in 0 .. 31
  PROVE  Digit(e + 2 * w, k) = IF k = 0 THEN e ELSE Digit(w, k - 1)
<1>1. PICK v \in Int : v = e + 2 * w /\ v \div 2 = w /\ v % 2 = e
  BY DEF Bit
<1>2. 2^0 = 1 /\ v \div 1 = v
  OBVIOUS
<1>3. CASE k = 0
  BY <1>1, <1>2, <1>3, Zenon DEF Digit
<1>4. CASE k # 0
  <2>1. \A j \in 0 .. 31 : v \div 2^j \in Int /\ v \div 2^(j + 1) = (v \div 2^j) \div 2
    BY ShiftOnce
  <2>2. \A j \in 0 .. 31 : w \div 2^j \in Int /\ w \div 2^(j + 1) = (w \div 2^j) \div 2
    BY ShiftOnce
  <2>3. w \div 2^0 = w
    OBVIOUS
  <2> DEFINE S == {j \in 1 .. 32 : v \div 2^j = w \div 2^(j - 1)}
  <2>4. 1 \in S
    <3>1. v \div 2^(0 + 1) = (v \div 2^0) \div 2
      BY <2>1
    <3>2. QED
      BY <1>1, <1>2, <2>3, <3>1
  <2>5. ASSUME NEW j \in 1 .. 31, j \in S PROVE j + 1 \in S
    <3>1. PICK i \in 0 .. 31 : i = j - 1 /\ j = i + 1 /\ j + 1 - 1 = j /\ j \in 0 .. 31
      OBVIOUS
    <3>2. v \div 2^(j + 1) = (v \div 2^j) \div 2
      BY <2>1, <3>1, Zenon
    <3>3. w \div 2^j = (w \div 2^i) \div 2
      BY <2>2, <3>1, Zenon
    <3>4. v \div 2^(j + 1) = w \div 2^(j + 1 - 1)
      BY <2>5, <3>1, <3>2, <3>3, Zenon
    <3>5. QED
      BY <3>4
  <2> HIDE DEF S
  <2>6. 1 .. 32 \subseteq S
    BY <2>4, <2>5, Unrolled, Zenon
  <2>7. k \in 1 .. 32
    BY <1>4
  <2>8. v \div 2^k = w \div 2^(k - 1)
    BY <2>6, <2>7, Zenon DEF S
  <2>9. QED
    BY <1>1, <1>4, <2>8, Zenon DEF Digit
<1>5. QED
  BY <1>3, <1>4

\* A number of one bit that is all sign.
LEMMA AllSign ==
  ASSUME NEW e \in Bit, NEW k \in 0 .. 31
  PROVE  Digit(0 - e, k) = e
<1>1. PICK p \in Nat \ {0} : p = 2^k
  BY Powers, Zenon
<1>2. CASE e = 0
  <2>1. \A n \in Nat \ {0} : 0 \div n = 0
    OBVIOUS
  <2>2. 0 \div p = 0
    BY <2>1, Zenon
  <2>3. 0 - e = 0 /\ 0 % 2 = 0
    BY <1>2
  <2>4. QED
    BY <1>1, <1>2, <2>2, <2>3, Zenon DEF Digit
<1>3. CASE e = 1
  <2>1. \A n \in Nat \ {0} : (-1) \div n = -1
    OBVIOUS
  <2>2. ((-1) \div p) % 2 = 1 /\ 0 - e = -1
    BY <1>3, <2>1
  <2>3. QED
    BY <1>1, <1>3, <2>2, Zenon DEF Digit
<1>4. QED
  BY <1>2, <1>3 DEF Bit

LEMMA ZeroDigits ==
  ASSUME NEW k \in 0 .. 31
  PROVE  Digit(0, k) = 0
<1>1. 0 \in Bit /\ 0 - 0 = 0
  BY DEF Bit
<1>2. QED
  BY <1>1, AllSign, Zenon

\* A field of n bits is a natural number below 2^n.
LEMMA FieldRange ==
  ASSUME NEW d \in Half \X Half, NEW n \in 1 .. 32, NEW lo \in 0 .. 31, lo + n <= 32
  PROVE  Bits(d, lo, n) \in Nat /\ Bits(d, lo, n) < 2^n
<1> DEFINE Right(m, l) == Bits(d, l, m) \in Nat /\ Bits(d, l, m) < 2^m
           S == {m \in 1 .. 32 : \A l \in 0 .. 31 : l + m <= 32 => Right(m, l)}
<1>1. 1 \in S
  <2>1. SUFFICES ASSUME NEW l \in 0 .. 31 PROVE Right(1, l)
    OBVIOUS
  <2>2. Bits(d, l, 1) \in Bit
    BY OneBit, Zenon
  <2>3. QED
    BY <2>2 DEF Bit
<1>2. ASSUME NEW m \in 1 .. 31, m \in S PROVE m + 1 \in S
  <2>1. SUFFICES ASSUME NEW l \in 0 .. 31, l + (m + 1) <= 32 PROVE Right(m + 1, l)
    OBVIOUS
  <2>2. PICK l1 \in 0 .. 31 : l1 = l + 1 /\ l1 + m <= 32 /\ l + m < 32
    BY <2>1
  <2>3. PICK e \in Bit : e = Bits(d, l, 1)
    BY OneBit, Zenon
  <2>4. Bits(d, l, m + 1) = e + 2 * Bits(d, l1, m)
    BY <2>2, <2>3, Peel, Zenon
  <2>5. PICK p \in Nat \ {0} : p = 2^m /\ 2^(m + 1) = 2 * p
    <3>1. m \in 0 .. 31
      OBVIOUS
    <3>2. QED
      BY <3>1, Powers, Zenon
  <2>6. PICK y \in Nat : y = Bits(d, l1, m) /\ y < p
    <3>1. Right(m, l1)
      BY <1>2, <2>2, Zenon
    <3>2. QED
      BY <2>5, <3>1, Zenon
  <2>7. e + 2 * y \in Nat /\ e + 2 * y < 2 * p
    BY <2>6 DEF Bit
  <2>8. QED
    BY <2>4, <2>5, <2>6, <2>7, Zenon
<1> HIDE DEF S
<1>3. 1 .. 32 \subseteq S
  BY <1>1, <1>2, Unrolled, Zenon
<1>4. QED
  BY <1>3, Zenon DEF S

\* A number with a field of the word d below the bits of w.
Above(d, lo, n, w) == Bits(d, lo, n) + 2^n * w

\* Its bits.
LEMMA AboveBits ==
  ASSUME NEW d \in Half \X Half, NEW w \in Int, NEW n \in 1 .. 32,
         NEW lo \in 0 .. 31, lo + n <= 32
  PROVE  /\ Above(d, lo, n, w) \in Int
         /\ \A k \in 0 .. 31 : Digit(Above(d, lo, n, w), k) =
              IF k < n THEN Bits(d, lo + k, 1) ELSE Digit(w, k - n)
<1> DEFINE Right(m, l) == /\ Above(d, l, m, w) \in Int
                          /\ \A k \in 0 .. 31 : Digit(Above(d, l, m, w), k) =
                               IF k < m THEN Bits(d, l + k, 1) ELSE Digit(w, k - m)
           S == {m \in 1 .. 32 : \A l \in 0 .. 31 : l + m <= 32 => Right(m, l)}
<1>1. 1 \in S
  <2>1. SUFFICES ASSUME NEW l \in 0 .. 31 PROVE Right(1, l)
    OBVIOUS
  <2>2. PICK e \in Bit : e = Bits(d, l, 1)
    BY OneBit, Zenon
  <2>3. Above(d, l, 1, w) = e + 2 * w /\ e + 2 * w \in Int
    BY <2>2 DEF Above, Bit
  <2>4. \A k \in 0 .. 31 : Digit(e + 2 * w, k) = IF k = 0 THEN e ELSE Digit(w, k - 1)
    BY Below, ZenonT(60)
  <2>5. ASSUME NEW k \in 0 .. 31
        PROVE  Digit(Above(d, l, 1, w), k) = IF k < 1 THEN Bits(d, l + k, 1) ELSE Digit(w, k - 1)
    BY <2>2, <2>3, <2>4
  <2>6. QED
    BY <2>3, <2>5, ZenonT(60)
<1>2. ASSUME NEW m \in 1 .. 31, m \in S PROVE m + 1 \in S
  <2>1. SUFFICES ASSUME NEW l \in 0 .. 31, l + (m + 1) <= 32 PROVE Right(m + 1, l)
    OBVIOUS
  <2>2. PICK l1 \in 0 .. 31 : l1 = l + 1 /\ l1 + m <= 32 /\ l + m < 32
    BY <2>1
  <2>3. Right(m, l1)
    BY <1>2, <2>2, Zenon
  <2>4. PICK e \in Bit : e = Bits(d, l, 1)
    BY OneBit, Zenon
  <2>5. PICK v \in Int : v = Above(d, l1, m, w)
    BY <2>3, Zenon
  <2>6. Above(d, l, m + 1, w) = e + 2 * v
    <3>1. Bits(d, l, m + 1) = e + 2 * Bits(d, l1, m)
      BY <2>2, <2>4, Peel, Zenon
    <3>2. PICK p \in Nat \ {0} : p = 2^m /\ 2^(m + 1) = 2 * p
      <4>1. m \in 0 .. 31
        OBVIOUS
      <4>2. QED
        BY <4>1, Powers, Zenon
    <3>3. PICK z \in Int : z = p * w /\ (2 * p) * w = 2 * z
      OBVIOUS
    <3>4. v = Bits(d, l1, m) + z
      BY <2>5, <3>2, <3>3, Zenon DEF Above
    <3>5. Above(d, l, m + 1, w) = e + 2 * Bits(d, l1, m) + 2 * z
      BY <3>1, <3>2, <3>3, Zenon DEF Above
    <3>6. Bits(d, l1, m) \in Int
      BY <2>2, FieldRange
    <3>7. QED
      BY <3>4, <3>5, <3>6 DEF Bit
  <2>7. e + 2 * v \in Int
    BY DEF Bit
  <2>8. ASSUME NEW k \in 0 .. 31
        PROVE  Digit(e + 2 * v, k) = IF k < m + 1 THEN Bits(d, l + k, 1) ELSE Digit(w, k - (m + 1))
    <3>1. CASE k = 0
      <4>1. Digit(e + 2 * v, k) = e
        BY <3>1, Below, Zenon
      <4>2. QED
        BY <2>4, <3>1, <4>1
    <3>2. CASE k # 0
      <4>1. PICK j \in 0 .. 31 : j = k - 1 /\ l1 + j = l + k /\ j - m = k - (m + 1)
        BY <2>2, <3>2
      <4>2. Digit(e + 2 * v, k) = Digit(v, j)
        BY <3>2, <4>1, Below, ZenonT(60)
      <4>3. Digit(v, j) = IF j < m THEN Bits(d, l1 + j, 1) ELSE Digit(w, j - m)
        BY <2>3, <2>5, Zenon
      <4>4. j < m <=> k < m + 1
        BY <4>1
      <4>5. QED
        BY <4>1, <4>2, <4>3, <4>4, Zenon
    <3>3. QED
      BY <3>1, <3>2
  <2>9. QED
    BY <2>6, <2>7, <2>8, Zenon
<1> HIDE DEF S
<1>3. 1 .. 32 \subseteq S
  BY <1>1, <1>2, Unrolled, Zenon
<1>4. QED
  BY <1>3, Zenon DEF S

\* The same for a field of zeros.
LEMMA Zeros ==
  ASSUME NEW w \in Int, NEW n \in 1 .. 31, NEW p \in Int, p = 2^n
  PROVE  /\ p * w \in Int
         /\ \A k \in 0 .. 31 : Digit(p * w, k) = IF k < n THEN 0 ELSE Digit(w, k - n)
<1> DEFINE z == <<0, 0>>
<1>1. z \in Half \X Half
  <2>1. PICK m \in Nat : m = 2^16 - 1
    OBVIOUS
  <2>2. 0 \in 0 .. m
    OBVIOUS
  <2>3. QED
    BY <2>1, <2>2, Zenon DEF Half
<1>2. ASSUME NEW l \in 0 .. 31, NEW m \in 1 .. 31, l + m <= 32 PROVE Bits(z, l, m) = 0
  <2>1. \A j \in 0 .. 31 : 0 \div 2^j = 0 /\ 0 % 2^j = 0
    <3>1. \A q \in Nat \ {0} : 0 \div q = 0 /\ 0 % q = 0
      OBVIOUS
    <3>2. QED
      BY <3>1, Powers, Zenon
  <2>2. CASE l >= 16
    <3>1. PICK j \in 0 .. 31 : j = l - 16
      BY <2>2
    <3>2. Bits(z, l, m) = (0 \div 2^j) % 2^m
      BY <2>2, <3>1 DEF Bits
    <3>3. m \in 0 .. 31
      OBVIOUS
    <3>4. QED
      BY <2>1, <3>2, <3>3, Zenon
  <2>3. CASE l < 16 /\ l + m <= 16
    <3>1. Bits(z, l, m) = (0 \div 2^l) % 2^m
      BY <2>3 DEF Bits
    <3>2. m \in 0 .. 31
      OBVIOUS
    <3>3. QED
      BY <2>1, <3>1, <3>2, Zenon
  <2>4. CASE l < 16 /\ l + m > 16
    <3>1. PICK j \in 0 .. 31, i \in 0 .. 31 : j = l + m - 16 /\ i = 16 - l
      BY <2>4
    <3>2. Bits(z, l, m) = (0 \div 2^l) + (0 % 2^j) * 2^i
      BY <2>4, <3>1 DEF Bits
    <3>3. PICK q \in Nat \ {0} : q = 2^i
      BY Powers, Zenon
    <3>4. 0 \div 2^l = 0 /\ 0 % 2^j = 0
      BY <2>1, Zenon
    <3>5. 0 + 0 * q = 0
      OBVIOUS
    <3>6. QED
      BY <3>2, <3>3, <3>4, <3>5, Zenon
  <2>5. QED
    BY <2>2, <2>3, <2>4
<1>3. Above(z, 0, n, w) = p * w
  <2>1. Bits(z, 0, n) = 0
    BY <1>2
  <2>2. 0 + p * w = p * w /\ p * w \in Int
    OBVIOUS
  <2>3. QED
    BY <2>1, <2>2, Zenon DEF Above
<1> HIDE DEF z
<1>4. PICK l \in 0 .. 31 : l = 0 /\ l + n <= 32 /\ n \in 1 .. 32
  OBVIOUS
<1>5. \A k \in 0 .. 31 : Digit(p * w, k) = IF k < n THEN Bits(z, l + k, 1) ELSE Digit(w, k - n)
  <2>1. \A k \in 0 .. 31 : Digit(Above(z, l, n, w), k) =
          IF k < n THEN Bits(z, l + k, 1) ELSE Digit(w, k - n)
    BY <1>1, <1>4, AboveBits, ZenonT(60)
  <2>2. QED
    BY <1>3, <1>4, <2>1, Zenon
<1>6. \A k \in 0 .. 31 : Bits(z, l + k, 1) = 0
  BY <1>2, <1>4
<1>7. QED
  BY <1>5, <1>6

\* A field is the field below its highest bit, and this bit.
LEMMA HighestBit ==
  ASSUME NEW d \in Half \X Half, NEW n \in 1 .. 31, NEW lo \in 0 .. 31, lo + n < 32
  PROVE  Bits(d, lo, n + 1) = Bits(d, lo, n) + 2^n * Bits(d, lo + n, 1)
<1> DEFINE Right(m, l) == Bits(d, l, m + 1) = Bits(d, l, m) + 2^m * Bits(d, l + m, 1)
           S == {m \in 1 .. 32 : \A l \in 0 .. 31 : l + m < 32 => Right(m, l)}
<1>1. 1 \in S
  <2>1. SUFFICES ASSUME NEW l \in 0 .. 31, l + 1 < 32 PROVE Right(1, l)
    OBVIOUS
  <2>2. Bits(d, l, 1 + 1) = Bits(d, l, 1) + 2 * Bits(d, l + 1, 1)
    BY <2>1, Peel
  <2>3. QED
    BY <2>2
<1>2. ASSUME NEW m \in 1 .. 31, m \in S PROVE m + 1 \in S
  <2>1. SUFFICES ASSUME NEW l \in 0 .. 31, l + (m + 1) < 32 PROVE Right(m + 1, l)
    OBVIOUS
  <2>2. PICK l1 \in 0 .. 31 : l1 = l + 1 /\ l1 + m < 32 /\ l1 + m <= 32 /\ l + m < 32
                           /\ l1 + m = l + (m + 1)
    BY <2>1
  <2>3. Right(m, l1)
    BY <1>2, <2>2, Zenon
  <2>4. PICK e \in Int : e = Bits(d, l, 1)
    BY OneBit DEF Bit
  <2>5. m + 1 \in 1 .. 31 /\ l + (m + 1) < 32
    BY <2>1
  <2>6. /\ Bits(d, l, m + 1 + 1) = e + 2 * Bits(d, l1, m + 1)
        /\ Bits(d, l, m + 1) = e + 2 * Bits(d, l1, m)
    BY <2>2, <2>4, <2>5, Peel, Zenon
  <2>7. PICK p \in Nat \ {0} : p = 2^m /\ 2^(m + 1) = 2 * p
    <3>1. m \in 0 .. 31
      OBVIOUS
    <3>2. QED
      BY <3>1, Powers, Zenon
  <2>8. PICK y \in Int, u \in Int : y = Bits(d, l1, m) /\ u = Bits(d, l1 + m, 1)
    <3>1. Bits(d, l1, m) \in Int
      <4>1. m \in 1 .. 32
        OBVIOUS
      <4>2. Bits(d, l1, m) \in Nat
        BY <2>2, <4>1, FieldRange, Zenon
      <4>3. QED
        BY <4>2
    <3>2. Bits(d, l1 + m, 1) \in Int
      BY <2>2, OneBit DEF Bit
    <3>3. QED
      BY <3>1, <3>2, Zenon
  <2>9. Bits(d, l1, m + 1) = y + p * u
    BY <2>3, <2>7, <2>8, Zenon
  <2>10. e + 2 * (y + p * u) = (e + 2 * y) + (2 * p) * u
    <3>1. PICK z \in Int : z = p * u /\ (2 * p) * u = 2 * z
      OBVIOUS
    <3>2. e + 2 * (y + z) = (e + 2 * y) + 2 * z
      OBVIOUS
    <3>3. QED
      BY <3>1, <3>2, Zenon
  <2>11. Bits(d, l + (m + 1), 1) = u
    BY <2>2, <2>8, Zenon
  <2>12. QED
    BY <2>6, <2>7, <2>8, <2>9, <2>10, <2>11, Zenon
<1> HIDE DEF S
<1>3. 1 .. 32 \subseteq S
  BY <1>1, <1>2, Unrolled, Zenon
<1>4. n \in 1 .. 32
  OBVIOUS
<1>5. QED
  BY <1>3, <1>4, Zenon DEF S

\* Sign extension takes the highest bit away twice.
LEMMA SignExtended ==
  ASSUME NEW y \in Nat, NEW n \in 1 .. 31, y < 2^n, NEW e \in Bit
  PROVE  SignExtend(y + 2^n * e, n + 1) = y + 2^n * (0 - e)
<1>1. PICK p \in Nat \ {0} : p = 2^n /\ 2^(n + 1) = 2 * p /\ y < p
  <2>1. n \in 0 .. 31
    OBVIOUS
  <2>2. QED
    BY <2>1, Powers, Zenon
<1>2. (n + 1) - 1 = n
  OBVIOUS
<1>3. SignExtend(y + 2^n * e, n + 1) = IF y + p * e >= p THEN (y + p * e) - 2 * p ELSE y + p * e
  BY <1>1, <1>2, Zenon DEF SignExtend
<1>4. CASE e = 0
  <2>1. y + p * e = y /\ y + p * (0 - e) = y
    BY <1>4
  <2>2. ~(y >= p)
    BY <1>1
  <2>3. QED
    BY <1>1, <1>3, <2>1, <2>2, Zenon
<1>5. CASE e = 1
  <2>1. y + p * e = y + p /\ y + p * (0 - e) = y - p
    BY <1>5
  <2>2. y + p >= p /\ (y + p) - 2 * p = y - p
    BY <1>1
  <2>3. QED
    BY <1>1, <1>3, <2>1, <2>2, Zenon
<1>6. QED
  BY <1>4, <1>5 DEF Bit

-----------------------------------------------------------------------------
(* The formats as drawn.                                                   *)

\* at says where a row draws the bits 0 to h of the immediate, 0 for none.
Inverse(at, row, h) ==
  /\ h \in 0 .. 31 /\ at[h + 1] # 0 /\ 0 \notin DOMAIN row
  /\ \A j \in DOMAIN row : row[j] # x => row[j] \in 0 .. h /\ at[row[j] + 1] = j
  /\ \A k \in 0 .. h : at[k + 1] # 0 => at[k + 1] \in DOMAIN row /\ row[at[k + 1]] = k

AtBit(at, h, d, top, reach, k) ==
  IF k <= h THEN IF at[k + 1] # 0 THEN Bits(d, top + 1 - at[k + 1], 1) ELSE 0
  ELSE IF k <= reach THEN Bits(d, top + 1 - at[h + 1], 1) ELSE 0

LEMMA RowAsDrawn ==
  ASSUME NEW at, NEW row, NEW h, Inverse(at, row, h), NEW d, NEW top, NEW reach \in {0, 31},
         NEW k \in 0 .. 31
  PROVE  RowBit(d, top, row, reach, k) = AtBit(at, h, d, top, reach, k)
<1> DEFINE Source(n) == {j \in DOMAIN row : row[j] = n}
           Drawn(n) == Bits(d, top + 1 - (CHOOSE j \in Source(n) : TRUE), 1)
           highest == CHOOSE u \in {row[j] : j \in DOMAIN row} : \A j \in DOMAIN row : row[j] <= u
<1>1. RowBit(d, top, row, reach, k) =
        IF Source(k) # {} THEN Drawn(k)
        ELSE IF k <= reach /\ k > highest /\ highest # x THEN Drawn(highest) ELSE 0
  BY Zenon DEF RowBit
<1>2. \A n \in 0 .. h : Source(n) = IF at[n + 1] # 0 THEN {at[n + 1]} ELSE {}
  <2>1. SUFFICES ASSUME NEW n \in 0 .. h
                 PROVE  Source(n) = IF at[n + 1] # 0 THEN {at[n + 1]} ELSE {}
    OBVIOUS
  <2>2. n # x
    BY DEF Inverse, x
  <2>3. \A j \in Source(n) : j = at[n + 1] /\ at[n + 1] # 0
    BY <2>2 DEF Inverse
  <2>4. at[n + 1] # 0 => at[n + 1] \in Source(n)
    BY DEF Inverse
  <2>5. QED
    BY <2>3, <2>4, ZenonT(60)
<1>3. ASSUME NEW n \in 0 .. h, at[n + 1] # 0
      PROVE  Drawn(n) = Bits(d, top + 1 - at[n + 1], 1)
  <2>1. Source(n) = {at[n + 1]}
    BY <1>2, <1>3, Zenon
  <2> HIDE DEF Source
  <2>2. (CHOOSE j \in Source(n) : TRUE) = at[n + 1]
    BY <2>1, Zenon
  <2>3. QED
    BY <2>2, Zenon
<1>4. h \in 0 .. h /\ h # x /\ h \in Int /\ at[h + 1] # 0
  BY DEF Inverse, x
<1>5. highest = h
  <2>1. h \in {row[j] : j \in DOMAIN row}
    <3>1. at[h + 1] \in DOMAIN row /\ row[at[h + 1]] = h
      BY <1>4 DEF Inverse
    <3>2. QED
      BY <3>1, Zenon
  <2>2. \A j \in DOMAIN row : row[j] \in Int /\ row[j] <= h
    BY DEF Inverse, x
  <2>3. \A u \in {row[j] : j \in DOMAIN row} : (\A j \in DOMAIN row : row[j] <= u) => u = h
    BY <1>4, <2>1, <2>2
  <2>4. QED
    BY <2>1, <2>2, <2>3, Zenon
<1>6. k > h => Source(k) = {}
  BY <1>4 DEF Inverse, x
<1> HIDE DEF Source, Drawn, highest
<1>7. CASE k <= h
  <2>1. k \in 0 .. h /\ ~(k > h)
    BY <1>4, <1>7
  <2>2. CASE at[k + 1] # 0
    <3>1. Source(k) # {}
      BY <1>2, <2>1, <2>2, Zenon DEF AtBit
    <3>2. QED
      BY <1>1, <1>3, <1>7, <2>1, <2>2, <3>1, Zenon DEF AtBit
  <2>3. CASE at[k + 1] = 0
    <3>1. Source(k) = {}
      BY <1>2, <2>1, <2>3, Zenon DEF AtBit
    <3>2. QED
      BY <1>1, <1>5, <1>7, <2>1, <2>3, <3>1, Zenon DEF AtBit
  <2>4. QED
    BY <2>2, <2>3
<1>8. CASE ~(k <= h)
  <2>1. k > h
    BY <1>4, <1>8
  <2>2. QED
    BY <1>1, <1>3, <1>4, <1>5, <1>6, <1>8, <2>1, Zenon DEF AtBit
<1>9. QED
  BY <1>7, <1>8

\* A row without an immediate.
LEMMA BlankRow ==
  ASSUME NEW n \in Nat \ {0}, NEW d, NEW top, NEW reach \in {0, 31}, NEW k \in 0 .. 31
  PROVE  RowBit(d, top, Blank(n), reach, k) = 0
<1> DEFINE row == Blank(n)
           Source(m) == {j \in DOMAIN row : row[j] = m}
           Drawn(m) == Bits(d, top + 1 - (CHOOSE j \in Source(m) : TRUE), 1)
           highest == CHOOSE u \in {row[j] : j \in DOMAIN row} : \A j \in DOMAIN row : row[j] <= u
<1>1. RowBit(d, top, row, reach, k) =
        IF Source(k) # {} THEN Drawn(k)
        ELSE IF k <= reach /\ k > highest /\ highest # x THEN Drawn(highest) ELSE 0
  BY Zenon DEF RowBit
<1>2. DOMAIN row = 1 .. n /\ 1 \in 1 .. n /\ \A j \in 1 .. n : row[j] = x
  BY DEF Blank
<1>3. Source(k) = {}
  BY <1>2 DEF x
<1>4. highest = x
  <2>1. {row[j] : j \in DOMAIN row} = {x}
    BY <1>2, Zenon
  <2>2. \A j \in DOMAIN row : row[j] <= x
    BY <1>2 DEF x
  <2>3. QED
    BY <2>1, <2>2, Zenon
<1>5. QED
  BY <1>1, <1>3, <1>4, Zenon

Signed32 == {v \in Int : -2147483648 <= v /\ v < 2147483648}

\* Bit by bit, v is what the row draws into d.
Draws(v, d, top, row, reach) ==
  /\ v \in Signed32
  /\ \A k \in 0 .. 31 : Digit(v, k) = RowBit(d, top, row, reach, k)

\* The sizes of the fields that make up immediates.
LEMMA FieldSizes ==
  ASSUME NEW d \in Half \X Half, NEW lo \in 0 .. 31
  PROVE  /\ lo + 1 <= 32 => Bits(d, lo, 1) \in Nat /\ Bits(d, lo, 1) < 2^1
         /\ lo + 2 <= 32 => Bits(d, lo, 2) \in Nat /\ Bits(d, lo, 2) < 2^2
         /\ lo + 3 <= 32 => Bits(d, lo, 3) \in Nat /\ Bits(d, lo, 3) < 2^3
         /\ lo + 4 <= 32 => Bits(d, lo, 4) \in Nat /\ Bits(d, lo, 4) < 2^4
         /\ lo + 5 <= 32 => Bits(d, lo, 5) \in Nat /\ Bits(d, lo, 5) < 2^5
         /\ lo + 6 <= 32 => Bits(d, lo, 6) \in Nat /\ Bits(d, lo, 6) < 2^6
         /\ lo + 8 <= 32 => Bits(d, lo, 8) \in Nat /\ Bits(d, lo, 8) < 2^8
         /\ lo + 10 <= 32 => Bits(d, lo, 10) \in Nat /\ Bits(d, lo, 10) < 2^10
         /\ lo + 11 <= 32 => Bits(d, lo, 11) \in Nat /\ Bits(d, lo, 11) < 2^11
         /\ lo + 19 <= 32 => Bits(d, lo, 19) \in Nat /\ Bits(d, lo, 19) < 2^19
<1>1. lo + 1 <= 32 => Bits(d, lo, 1) \in Nat /\ Bits(d, lo, 1) < 2^1
  <2>1. 1 \in 1 .. 32
    OBVIOUS
  <2>2. QED
    BY <2>1, FieldRange, Zenon
<1>2. lo + 2 <= 32 => Bits(d, lo, 2) \in Nat /\ Bits(d, lo, 2) < 2^2
  <2>1. 2 \in 1 .. 32
    OBVIOUS
  <2>2. QED
    BY <2>1, FieldRange, Zenon
<1>3. lo + 3 <= 32 => Bits(d, lo, 3) \in Nat /\ Bits(d, lo, 3) < 2^3
  <2>1. 3 \in 1 .. 32
    OBVIOUS
  <2>2. QED
    BY <2>1, FieldRange, Zenon
<1>4. lo + 4 <= 32 => Bits(d, lo, 4) \in Nat /\ Bits(d, lo, 4) < 2^4
  <2>1. 4 \in 1 .. 32
    OBVIOUS
  <2>2. QED
    BY <2>1, FieldRange, Zenon
<1>5. lo + 5 <= 32 => Bits(d, lo, 5) \in Nat /\ Bits(d, lo, 5) < 2^5
  <2>1. 5 \in 1 .. 32
    OBVIOUS
  <2>2. QED
    BY <2>1, FieldRange, Zenon
<1>6. lo + 6 <= 32 => Bits(d, lo, 6) \in Nat /\ Bits(d, lo, 6) < 2^6
  <2>1. 6 \in 1 .. 32
    OBVIOUS
  <2>2. QED
    BY <2>1, FieldRange, Zenon
<1>7. lo + 8 <= 32 => Bits(d, lo, 8) \in Nat /\ Bits(d, lo, 8) < 2^8
  <2>1. 8 \in 1 .. 32
    OBVIOUS
  <2>2. QED
    BY <2>1, FieldRange, Zenon
<1>8. lo + 10 <= 32 => Bits(d, lo, 10) \in Nat /\ Bits(d, lo, 10) < 2^10
  <2>1. 10 \in 1 .. 32
    OBVIOUS
  <2>2. QED
    BY <2>1, FieldRange, Zenon
<1>9. lo + 11 <= 32 => Bits(d, lo, 11) \in Nat /\ Bits(d, lo, 11) < 2^11
  <2>1. 11 \in 1 .. 32
    OBVIOUS
  <2>2. QED
    BY <2>1, FieldRange, Zenon
<1>10. lo + 19 <= 32 => Bits(d, lo, 19) \in Nat /\ Bits(d, lo, 19) < 2^19
  <2>1. 19 \in 1 .. 32
    OBVIOUS
  <2>2. QED
    BY <2>1, FieldRange, Zenon
<1>11. QED
  BY <1>1, <1>2, <1>3, <1>4, <1>5, <1>6, <1>7, <1>8, <1>9, <1>10

\* One lemma for each format.  In their proofs f0, f1, ... are the fields of the word that
\* make up the immediate, from its low end, and e is the sign bit; w0 is the immediate, or
\* what stands above its bits that are always 0, and wi what stands above its first i
\* fields; at is where the row draws the immediate's bits.  What the reader adds up is w0
\* (v, with the zeros), and bit by bit both w0 and the row are the bits of the same fields.

\* The immediates of loads, jalr and operations.
LEMMA DrawnI ==
  ASSUME NEW d \in Half \X Half
  PROVE  Draws(inst_itype_read(d).imm, d, 31, Row32.I, 31)
<1> DEFINE row == Row32.I
           at == <<12, 11, 10, 9, 8, 7, 6, 5, 4, 3, 2, 1>>
<1>1. PICK f0 \in Nat : f0 = Bits(d, 20, 11) /\ f0 < 2^11
  BY FieldSizes
<1>2. PICK e \in Bit : e = Bits(d, 31, 1)
  BY OneBit
<1>3. PICK w1 \in Int : w1 = 0 - e /\ \A k \in 0 .. 31 : Digit(w1, k) = e
  BY AllSign DEF Bit
<1>4. PICK w0 \in Int :
        /\ w0 = Above(d, 20, 11, w1)
        /\ \A k \in 0 .. 31 : Digit(w0, k) =
             IF k < 11 THEN Bits(d, 20 + k, 1) ELSE Digit(w1, k - 11)
  <2>1. 11 \in 1 .. 32 /\ 20 \in 0 .. 31 /\ 20 + 11 <= 32 /\ w1 \in Int
    BY <1>3
  <2>2. /\ Above(d, 20, 11, w1) \in Int
        /\ \A k \in 0 .. 31 : Digit(Above(d, 20, 11, w1), k) =
             IF k < 11 THEN Bits(d, 20 + k, 1) ELSE Digit(w1, k - 11)
    BY <2>1, AboveBits, ZenonT(60)
  <2>3. QED
    BY <2>2, Zenon
<1>5. w0 = f0 + 2048 * w1
  BY <1>1, <1>4 DEF Above
<1>6. Bits(d, 20, 12) = f0 + 2^11 * e /\ f0 < 2^11
  <2>1. 11 \in 1 .. 31 /\ 20 \in 0 .. 31 /\ 20 + 11 < 32
    OBVIOUS
  <2>2. Bits(d, 20, 11 + 1) = Bits(d, 20, 11) + 2^11 * Bits(d, 20 + 11, 1)
    BY <2>1, HighestBit, Zenon
  <2>3. QED
    BY <1>1, <1>2, <2>2
<1>7. inst_itype_read(d).imm = SignExtend(Bits(d, 20, 12), 12)
  BY ClearedRead, Zenon DEF inst_itype_read, LongRead, Read, Fits, Keys
<1>8. SignExtend(Bits(d, 20, 12), 12) = f0 + 2^11 * (0 - e)
  <2>1. 11 \in 1 .. 31
    OBVIOUS
  <2>2. SignExtend(f0 + 2^11 * e, 11 + 1) = f0 + 2^11 * (0 - e)
    BY <1>6, <2>1, SignExtended, Zenon
  <2>3. 11 + 1 = 12
    OBVIOUS
  <2>4. QED
    BY <1>6, <2>2, <2>3, Zenon
<1>9. inst_itype_read(d).imm = w0 /\ -2048 <= w0 /\ w0 < 2048
  <2>1. /\ w0 = f0 + 2048 * w1
        /\ w1 = 0 - e
        /\ inst_itype_read(d).imm = (f0 + 2^11 * (0 - e))
        /\ f0 < 2^11
    BY <1>1, <1>3, <1>5, <1>7, <1>8
  <2>2. CASE e = 0
    BY <2>1, <2>2, SMT
  <2>3. CASE e = 1
    BY <2>1, <2>3, SMT
  <2>4. QED
    BY <2>2, <2>3 DEF Bit
<1>10. Inverse(at, row, 11)
  BY DEF Inverse, Row32, x
<1>11. \A k \in 0 .. 11 : at[k + 1] =
        IF k < 11 THEN 12 - k ELSE 1
  OBVIOUS
<1> HIDE DEF at, row
<1>12. \A k \in 0 .. 31 : RowBit(d, 31, row, 31, k) =
        IF k < 11 THEN Bits(d, k + 20, 1) ELSE Bits(d, 31, 1)
  <2>1. 11 \in 0 .. 31 /\ 31 \in {0, 31}
    OBVIOUS
  <2>2. \A k \in 0 .. 31 : RowBit(d, 31, row, 31, k) = AtBit(at, 11, d, 31, 31, k)
    BY <1>10, <2>1, RowAsDrawn, SMT
  <2>3. QED
    BY <1>11, <2>2 DEF AtBit
<1>13. \A k \in 0 .. 31 : Digit(w0, k) =
        IF k < 11 THEN Bits(d, k + 20, 1) ELSE Bits(d, 31, 1)
  BY <1>2, <1>3, <1>4
<1>14. QED
  <2>1. w0 \in Signed32
    BY <1>4, <1>9, SMT DEF Signed32
  <2>2. \A k \in 0 .. 31 : Digit(w0, k) = RowBit(d, 31, row, 31, k)
    BY <1>13, <1>12, Zenon
  <2>3. QED
    BY <1>9, <2>1, <2>2, SMT DEF Draws, row

\* Those of stores.
LEMMA DrawnS ==
  ASSUME NEW d \in Half \X Half
  PROVE  Draws(inst_stype_read(d).imm, d, 31, Row32.S, 31)
<1> DEFINE row == Row32.S
           at == <<25, 24, 23, 22, 21, 7, 6, 5, 4, 3, 2, 1>>
<1>1. PICK f0 \in Nat : f0 = Bits(d, 7, 5) /\ f0 < 2^5
  BY FieldSizes
<1>2. PICK f1 \in Nat : f1 = Bits(d, 25, 6) /\ f1 < 2^6
  BY FieldSizes
<1>3. PICK e \in Bit : e = Bits(d, 31, 1)
  BY OneBit
<1>4. PICK w2 \in Int : w2 = 0 - e /\ \A k \in 0 .. 31 : Digit(w2, k) = e
  BY AllSign DEF Bit
<1>5. PICK w1 \in Int :
        /\ w1 = Above(d, 25, 6, w2)
        /\ \A k \in 0 .. 31 : Digit(w1, k) =
             IF k < 6 THEN Bits(d, 25 + k, 1) ELSE Digit(w2, k - 6)
  <2>1. 6 \in 1 .. 32 /\ 25 \in 0 .. 31 /\ 25 + 6 <= 32 /\ w2 \in Int
    BY <1>4
  <2>2. /\ Above(d, 25, 6, w2) \in Int
        /\ \A k \in 0 .. 31 : Digit(Above(d, 25, 6, w2), k) =
             IF k < 6 THEN Bits(d, 25 + k, 1) ELSE Digit(w2, k - 6)
    BY <2>1, AboveBits, Zenon
  <2>3. QED
    BY <2>2, Zenon
<1>6. PICK w0 \in Int :
        /\ w0 = Above(d, 7, 5, w1)
        /\ \A k \in 0 .. 31 : Digit(w0, k) =
             IF k < 5 THEN Bits(d, 7 + k, 1) ELSE Digit(w1, k - 5)
  <2>1. 5 \in 1 .. 32 /\ 7 \in 0 .. 31 /\ 7 + 5 <= 32 /\ w1 \in Int
    BY <1>5
  <2>2. /\ Above(d, 7, 5, w1) \in Int
        /\ \A k \in 0 .. 31 : Digit(Above(d, 7, 5, w1), k) =
             IF k < 5 THEN Bits(d, 7 + k, 1) ELSE Digit(w1, k - 5)
    BY <2>1, AboveBits, ZenonT(60)
  <2>3. QED
    BY <2>2, Zenon
<1>7. /\ w1 = f1 + 64 * w2
      /\ w0 = f0 + 32 * w1
  BY <1>1, <1>2, <1>5, <1>6 DEF Above
<1>8. Bits(d, 25, 7) = f1 + 2^6 * e
  <2>1. 6 \in 1 .. 31 /\ 25 \in 0 .. 31 /\ 25 + 6 < 32
    OBVIOUS
  <2>2. Bits(d, 25, 6 + 1) = Bits(d, 25, 6) + 2^6 * Bits(d, 25 + 6, 1)
    BY <2>1, HighestBit, Zenon
  <2>3. QED
    BY <1>2, <1>3, <2>2
<1>9. inst_stype_read(d).imm =
        SignExtend(Field(d, 25, 7, 5) + Bits(d, 7, 5), 12)
  BY ClearedRead, Zenon DEF inst_stype_read, LongRead, Read, Fits, Keys
<1>10. inst_stype_read(d).imm = SignExtend((f1 + 64 * e) * 32 + f0, 12)
  BY <1>1, <1>2, <1>3, <1>8, <1>9 DEF Field
<1>11. /\ inst_stype_read(d).imm = w0
      /\ -2048 <= w0 /\ w0 < 2048
  <2>1. /\ w0 = f0 + 32 * w1
        /\ w1 = f1 + 64 * w2
        /\ w2 = 0 - e
        /\ f0 < 2^5
        /\ f1 < 2^6
    BY <1>1, <1>2, <1>4, <1>7
  <2>2. CASE e = 0
    BY <1>10, <2>1, <2>2, SMT DEF SignExtend
  <2>3. CASE e = 1
    BY <1>10, <2>1, <2>3, SMT DEF SignExtend
  <2>4. QED
    BY <2>2, <2>3 DEF Bit
<1>12. Inverse(at, row, 11)
  BY DEF Inverse, Row32, x
<1>13. \A k \in 0 .. 11 : at[k + 1] =
        IF k < 5 THEN 25 - k ELSE IF k < 11 THEN 12 - k ELSE 1
  OBVIOUS
<1> HIDE DEF at, row
<1>14. \A k \in 0 .. 31 : RowBit(d, 31, row, 31, k) =
        IF k < 5 THEN Bits(d, k + 7, 1) ELSE IF k < 11 THEN Bits(d, k + 20, 1) ELSE Bits(d,
        31, 1)
  <2>1. 11 \in 0 .. 31 /\ 31 \in {0, 31}
    OBVIOUS
  <2>2. \A k \in 0 .. 31 : RowBit(d, 31, row, 31, k) = AtBit(at, 11, d, 31, 31, k)
    BY <1>12, <2>1, RowAsDrawn, SMT
  <2>3. QED
    BY <1>13, <2>2 DEF AtBit
<1>15. \A k \in 0 .. 31 : Digit(w0, k) =
        IF k < 5 THEN Bits(d, k + 7, 1) ELSE IF k < 11 THEN Bits(d, k + 20, 1) ELSE Bits(d,
        31, 1)
  BY <1>3, <1>4, <1>5, <1>6
<1>16. QED
  <2>1. w0 \in Signed32
    BY <1>6, <1>11, SMT DEF Signed32
  <2>2. \A k \in 0 .. 31 : Digit(w0, k) = RowBit(d, 31, row, 31, k)
    BY <1>15, <1>14, Zenon
  <2>3. QED
    BY <1>11, <2>1, <2>2, SMT DEF Draws, row

\* Of branches.
LEMMA DrawnB ==
  ASSUME NEW d \in Half \X Half
  PROVE  Draws(inst_btype_read(d).imm, d, 31, Row32.B, 31)
<1> DEFINE row == Row32.B
           at == <<0, 24, 23, 22, 21, 7, 6, 5, 4, 3, 2, 25, 1>>
<1>1. PICK f0 \in Nat : f0 = Bits(d, 8, 4) /\ f0 < 2^4
  BY FieldSizes
<1>2. PICK f1 \in Nat : f1 = Bits(d, 25, 6) /\ f1 < 2^6
  BY FieldSizes
<1>3. PICK f2 \in Nat : f2 = Bits(d, 7, 1) /\ f2 < 2^1
  BY FieldSizes
<1>4. PICK e \in Bit : e = Bits(d, 31, 1)
  BY OneBit
<1>5. PICK w3 \in Int : w3 = 0 - e /\ \A k \in 0 .. 31 : Digit(w3, k) = e
  BY AllSign DEF Bit
<1>6. PICK w2 \in Int :
        /\ w2 = Above(d, 7, 1, w3)
        /\ \A k \in 0 .. 31 : Digit(w2, k) =
             IF k < 1 THEN Bits(d, 7 + k, 1) ELSE Digit(w3, k - 1)
  <2>1. 1 \in 1 .. 32 /\ 7 \in 0 .. 31 /\ 7 + 1 <= 32 /\ w3 \in Int
    BY <1>5
  <2>2. /\ Above(d, 7, 1, w3) \in Int
        /\ \A k \in 0 .. 31 : Digit(Above(d, 7, 1, w3), k) =
             IF k < 1 THEN Bits(d, 7 + k, 1) ELSE Digit(w3, k - 1)
    BY <2>1, AboveBits, Zenon
  <2>3. QED
    BY <2>2, Zenon
<1>7. PICK w1 \in Int :
        /\ w1 = Above(d, 25, 6, w2)
        /\ \A k \in 0 .. 31 : Digit(w1, k) =
             IF k < 6 THEN Bits(d, 25 + k, 1) ELSE Digit(w2, k - 6)
  <2>1. 6 \in 1 .. 32 /\ 25 \in 0 .. 31 /\ 25 + 6 <= 32 /\ w2 \in Int
    BY <1>6
  <2>2. /\ Above(d, 25, 6, w2) \in Int
        /\ \A k \in 0 .. 31 : Digit(Above(d, 25, 6, w2), k) =
             IF k < 6 THEN Bits(d, 25 + k, 1) ELSE Digit(w2, k - 6)
    BY <2>1, AboveBits, ZenonT(60)
  <2>3. QED
    BY <2>2, Zenon
<1>8. PICK w0 \in Int :
        /\ w0 = Above(d, 8, 4, w1)
        /\ \A k \in 0 .. 31 : Digit(w0, k) =
             IF k < 4 THEN Bits(d, 8 + k, 1) ELSE Digit(w1, k - 4)
  <2>1. 4 \in 1 .. 32 /\ 8 \in 0 .. 31 /\ 8 + 4 <= 32 /\ w1 \in Int
    BY <1>7
  <2>2. /\ Above(d, 8, 4, w1) \in Int
        /\ \A k \in 0 .. 31 : Digit(Above(d, 8, 4, w1), k) =
             IF k < 4 THEN Bits(d, 8 + k, 1) ELSE Digit(w1, k - 4)
    BY <2>1, AboveBits, ZenonT(60)
  <2>3. QED
    BY <2>2, Zenon
<1>9. PICK v \in Int :
        /\ v = 2 * w0
        /\ \A k \in 0 .. 31 : Digit(v, k) = IF k < 1 THEN 0 ELSE Digit(w0, k - 1)
  <2>1. PICK p \in Int : p = 2^1
    BY SMT
  <2>2. 1 \in 1 .. 31 /\ w0 \in Int
    BY <1>8
  <2>3. /\ p * w0 \in Int
        /\ \A k \in 0 .. 31 : Digit(p * w0, k) = IF k < 1 THEN 0 ELSE Digit(w0, k - 1)
    BY <2>1, <2>2, Zeros, ZenonT(60)
  <2>4. QED
    BY <2>1, <2>3, SMT
<1>10. /\ w2 = f2 + 2 * w3
      /\ w1 = f1 + 64 * w2
      /\ w0 = f0 + 16 * w1
  BY <1>1, <1>2, <1>3, <1>6, <1>7, <1>8 DEF Above
<1>11. inst_btype_read(d).imm =
        SignExtend(Field(d, 31, 1, 12) + Field(d, 7, 1, 11) + Field(d, 25, 6, 5) +
          Field(d, 8, 4, 1), 13)
  BY ClearedRead, Zenon DEF inst_btype_read, LongRead, Read, Fits, Keys
<1>12. inst_btype_read(d).imm = SignExtend(e * 4096 + f2 * 2048 + f1 * 32 + f0 * 2, 13)
  BY <1>1, <1>2, <1>3, <1>4, <1>11 DEF Field
<1>13. /\ inst_btype_read(d).imm = v
      /\ -4096 <= v /\ v < 4096
  <2>1. /\ w0 = f0 + 16 * w1
        /\ w1 = f1 + 64 * w2
        /\ w2 = f2 + 2 * w3
        /\ w3 = 0 - e
        /\ v = 2 * w0
        /\ f0 < 2^4
        /\ f1 < 2^6
        /\ f2 < 2^1
    BY <1>1, <1>2, <1>3, <1>5, <1>9, <1>10
  <2>2. CASE e = 0
    BY <1>12, <2>1, <2>2, SMT DEF SignExtend
  <2>3. CASE e = 1
    BY <1>12, <2>1, <2>3, SMT DEF SignExtend
  <2>4. QED
    BY <2>2, <2>3 DEF Bit
<1>14. Inverse(at, row, 12)
  BY DEF Inverse, Row32, x
<1>15. \A k \in 0 .. 12 : at[k + 1] =
        IF k < 1 THEN 0 ELSE IF k < 5 THEN 25 - k ELSE IF k < 11 THEN 12 - k ELSE IF k < 12
        THEN 25 ELSE 1
  OBVIOUS
<1> HIDE DEF at, row
<1>16. \A k \in 0 .. 31 : RowBit(d, 31, row, 31, k) =
        IF k < 1 THEN 0 ELSE IF k < 5 THEN Bits(d, k + 7, 1) ELSE IF k < 11 THEN Bits(d, k +
        20, 1) ELSE IF k < 12 THEN Bits(d, 7, 1) ELSE Bits(d, 31, 1)
  <2>1. 12 \in 0 .. 31 /\ 31 \in {0, 31}
    OBVIOUS
  <2>2. \A k \in 0 .. 31 : RowBit(d, 31, row, 31, k) = AtBit(at, 12, d, 31, 31, k)
    BY <1>14, <2>1, RowAsDrawn, SMT
  <2>3. QED
    BY <1>15, <2>2 DEF AtBit
<1>17. \A k \in 0 .. 31 : Digit(v, k) =
        IF k < 1 THEN 0 ELSE IF k < 5 THEN Bits(d, k + 7, 1) ELSE IF k < 11 THEN Bits(d, k +
        20, 1) ELSE IF k < 12 THEN Bits(d, 7, 1) ELSE Bits(d, 31, 1)
  BY <1>4, <1>5, <1>6, <1>7, <1>8, <1>9
<1>18. QED
  <2>1. v \in Signed32
    BY <1>9, <1>13, SMT DEF Signed32
  <2>2. \A k \in 0 .. 31 : Digit(v, k) = RowBit(d, 31, row, 31, k)
    BY <1>17, <1>16, Zenon
  <2>3. QED
    BY <1>13, <2>1, <2>2, SMT DEF Draws, row

\* Of lui and auipc.
LEMMA DrawnU ==
  ASSUME NEW d \in Half \X Half
  PROVE  Draws(inst_utype_read(d).imm, d, 31, Row32.U, 31)
<1> DEFINE row == Row32.U
           at == <<0, 0, 0, 0, 0, 0, 0, 0, 0, 0, 0, 0, 20, 19, 18, 17, 16, 15, 14, 13, 12,
                 11, 10, 9, 8, 7, 6, 5, 4, 3, 2, 1>>
<1>1. PICK f0 \in Nat : f0 = Bits(d, 12, 19) /\ f0 < 2^19
  BY FieldSizes
<1>2. PICK e \in Bit : e = Bits(d, 31, 1)
  BY OneBit
<1>3. PICK w1 \in Int : w1 = 0 - e /\ \A k \in 0 .. 31 : Digit(w1, k) = e
  BY AllSign DEF Bit
<1>4. PICK w0 \in Int :
        /\ w0 = Above(d, 12, 19, w1)
        /\ \A k \in 0 .. 31 : Digit(w0, k) =
             IF k < 19 THEN Bits(d, 12 + k, 1) ELSE Digit(w1, k - 19)
  <2>1. 19 \in 1 .. 32 /\ 12 \in 0 .. 31 /\ 12 + 19 <= 32 /\ w1 \in Int
    BY <1>3
  <2>2. /\ Above(d, 12, 19, w1) \in Int
        /\ \A k \in 0 .. 31 : Digit(Above(d, 12, 19, w1), k) =
             IF k < 19 THEN Bits(d, 12 + k, 1) ELSE Digit(w1, k - 19)
    BY <2>1, AboveBits, ZenonT(60)
  <2>3. QED
    BY <2>2, Zenon
<1>5. PICK v \in Int :
        /\ v = 4096 * w0
        /\ \A k \in 0 .. 31 : Digit(v, k) = IF k < 12 THEN 0 ELSE Digit(w0, k - 12)
  <2>1. PICK p \in Int : p = 2^12
    BY SMT
  <2>2. 12 \in 1 .. 31 /\ w0 \in Int
    BY <1>4
  <2>3. /\ p * w0 \in Int
        /\ \A k \in 0 .. 31 : Digit(p * w0, k) = IF k < 12 THEN 0 ELSE Digit(w0, k - 12)
    BY <2>1, <2>2, Zeros, ZenonT(60)
  <2>4. QED
    BY <2>1, <2>3, SMT
<1>6. w0 = f0 + 524288 * w1
  BY <1>1, <1>4 DEF Above
<1>7. Bits(d, 12, 20) = f0 + 2^19 * e /\ f0 < 2^19
  <2>1. 19 \in 1 .. 31 /\ 12 \in 0 .. 31 /\ 12 + 19 < 32
    OBVIOUS
  <2>2. Bits(d, 12, 19 + 1) = Bits(d, 12, 19) + 2^19 * Bits(d, 12 + 19, 1)
    BY <2>1, HighestBit, Zenon
  <2>3. QED
    BY <1>1, <1>2, <2>2
<1>8. inst_utype_read(d).imm = SignExtend(Bits(d, 12, 20), 20) * 2^12
  BY ClearedRead, Zenon DEF inst_utype_read, LongRead, Read, Fits, Keys
<1>9. SignExtend(Bits(d, 12, 20), 20) = f0 + 2^19 * (0 - e)
  <2>1. 19 \in 1 .. 31
    OBVIOUS
  <2>2. SignExtend(f0 + 2^19 * e, 19 + 1) = f0 + 2^19 * (0 - e)
    BY <1>7, <2>1, SignExtended, Zenon
  <2>3. 19 + 1 = 20
    OBVIOUS
  <2>4. QED
    BY <1>7, <2>2, <2>3, Zenon
<1>10. inst_utype_read(d).imm = v /\ -2147483648 <= v /\ v < 2147483648
  <2>1. /\ w0 = f0 + 524288 * w1
        /\ w1 = 0 - e
        /\ v = 4096 * w0
        /\ inst_utype_read(d).imm = (f0 + 2^19 * (0 - e)) * 2^12
        /\ f0 < 2^19
    BY <1>1, <1>3, <1>5, <1>6, <1>8, <1>9
  <2>2. CASE e = 0
    BY <2>1, <2>2, SMT
  <2>3. CASE e = 1
    BY <2>1, <2>3, SMT
  <2>4. QED
    BY <2>2, <2>3 DEF Bit
<1>11. Inverse(at, row, 31)
  BY DEF Inverse, Row32, x
<1>12. \A k \in 0 .. 31 : at[k + 1] =
        IF k < 12 THEN 0 ELSE IF k < 31 THEN 32 - k ELSE 1
  OBVIOUS
<1> HIDE DEF at, row
<1>13. \A k \in 0 .. 31 : RowBit(d, 31, row, 31, k) =
        IF k < 12 THEN 0 ELSE IF k < 31 THEN Bits(d, k, 1) ELSE Bits(d, 31, 1)
  <2>1. 31 \in 0 .. 31 /\ 31 \in {0, 31}
    OBVIOUS
  <2>2. \A k \in 0 .. 31 : RowBit(d, 31, row, 31, k) = AtBit(at, 31, d, 31, 31, k)
    BY <1>11, <2>1, RowAsDrawn, SMT
  <2>3. QED
    BY <1>12, <2>2 DEF AtBit
<1>14. \A k \in 0 .. 31 : Digit(v, k) =
        IF k < 12 THEN 0 ELSE IF k < 31 THEN Bits(d, k, 1) ELSE Bits(d, 31, 1)
  BY <1>2, <1>3, <1>4, <1>5
<1>15. QED
  <2>1. v \in Signed32
    BY <1>5, <1>10, SMT DEF Signed32
  <2>2. \A k \in 0 .. 31 : Digit(v, k) = RowBit(d, 31, row, 31, k)
    BY <1>14, <1>13, Zenon
  <2>3. QED
    BY <1>10, <2>1, <2>2, SMT DEF Draws, row

\* Of jal.
LEMMA DrawnJ ==
  ASSUME NEW d \in Half \X Half
  PROVE  Draws(inst_jtype_read(d).imm, d, 31, Row32.J, 31)
<1> DEFINE row == Row32.J
           at == <<0, 11, 10, 9, 8, 7, 6, 5, 4, 3, 2, 12, 20, 19, 18, 17, 16, 15, 14, 13,
                 1>>
<1>1. PICK f0 \in Nat : f0 = Bits(d, 21, 10) /\ f0 < 2^10
  BY FieldSizes
<1>2. PICK f1 \in Nat : f1 = Bits(d, 20, 1) /\ f1 < 2^1
  BY FieldSizes
<1>3. PICK f2 \in Nat : f2 = Bits(d, 12, 8) /\ f2 < 2^8
  BY FieldSizes
<1>4. PICK e \in Bit : e = Bits(d, 31, 1)
  BY OneBit
<1>5. PICK w3 \in Int : w3 = 0 - e /\ \A k \in 0 .. 31 : Digit(w3, k) = e
  BY AllSign DEF Bit
<1>6. PICK w2 \in Int :
        /\ w2 = Above(d, 12, 8, w3)
        /\ \A k \in 0 .. 31 : Digit(w2, k) =
             IF k < 8 THEN Bits(d, 12 + k, 1) ELSE Digit(w3, k - 8)
  <2>1. 8 \in 1 .. 32 /\ 12 \in 0 .. 31 /\ 12 + 8 <= 32 /\ w3 \in Int
    BY <1>5
  <2>2. /\ Above(d, 12, 8, w3) \in Int
        /\ \A k \in 0 .. 31 : Digit(Above(d, 12, 8, w3), k) =
             IF k < 8 THEN Bits(d, 12 + k, 1) ELSE Digit(w3, k - 8)
    BY <2>1, AboveBits, Zenon
  <2>3. QED
    BY <2>2, Zenon
<1>7. PICK w1 \in Int :
        /\ w1 = Above(d, 20, 1, w2)
        /\ \A k \in 0 .. 31 : Digit(w1, k) =
             IF k < 1 THEN Bits(d, 20 + k, 1) ELSE Digit(w2, k - 1)
  <2>1. 1 \in 1 .. 32 /\ 20 \in 0 .. 31 /\ 20 + 1 <= 32 /\ w2 \in Int
    BY <1>6
  <2>2. /\ Above(d, 20, 1, w2) \in Int
        /\ \A k \in 0 .. 31 : Digit(Above(d, 20, 1, w2), k) =
             IF k < 1 THEN Bits(d, 20 + k, 1) ELSE Digit(w2, k - 1)
    BY <2>1, AboveBits, ZenonT(60)
  <2>3. QED
    BY <2>2, Zenon
<1>8. PICK w0 \in Int :
        /\ w0 = Above(d, 21, 10, w1)
        /\ \A k \in 0 .. 31 : Digit(w0, k) =
             IF k < 10 THEN Bits(d, 21 + k, 1) ELSE Digit(w1, k - 10)
  <2>1. 10 \in 1 .. 32 /\ 21 \in 0 .. 31 /\ 21 + 10 <= 32 /\ w1 \in Int
    BY <1>7
  <2>2. /\ Above(d, 21, 10, w1) \in Int
        /\ \A k \in 0 .. 31 : Digit(Above(d, 21, 10, w1), k) =
             IF k < 10 THEN Bits(d, 21 + k, 1) ELSE Digit(w1, k - 10)
    BY <2>1, AboveBits, ZenonT(60)
  <2>3. QED
    BY <2>2, Zenon
<1>9. PICK v \in Int :
        /\ v = 2 * w0
        /\ \A k \in 0 .. 31 : Digit(v, k) = IF k < 1 THEN 0 ELSE Digit(w0, k - 1)
  <2>1. PICK p \in Int : p = 2^1
    BY SMT
  <2>2. 1 \in 1 .. 31 /\ w0 \in Int
    BY <1>8
  <2>3. /\ p * w0 \in Int
        /\ \A k \in 0 .. 31 : Digit(p * w0, k) = IF k < 1 THEN 0 ELSE Digit(w0, k - 1)
    BY <2>1, <2>2, Zeros, Zenon
  <2>4. QED
    BY <2>1, <2>3, SMT
<1>10. /\ w2 = f2 + 256 * w3
      /\ w1 = f1 + 2 * w2
      /\ w0 = f0 + 1024 * w1
  BY <1>1, <1>2, <1>3, <1>6, <1>7, <1>8 DEF Above
<1>11. inst_jtype_read(d).imm =
        SignExtend(Field(d, 31, 1, 20) + Field(d, 12, 8, 12) + Field(d, 20, 1, 11) +
          Field(d, 21, 10, 1), 21)
  BY ClearedRead, Zenon DEF inst_jtype_read, LongRead, Read, Fits, Keys
<1>12. inst_jtype_read(d).imm = SignExtend(e * 1048576 + f2 * 4096 + f1 * 2048 + f0 * 2, 21)
  BY <1>1, <1>2, <1>3, <1>4, <1>11 DEF Field
<1>13. /\ inst_jtype_read(d).imm = v
      /\ -1048576 <= v /\ v < 1048576
  <2>1. /\ w0 = f0 + 1024 * w1
        /\ w1 = f1 + 2 * w2
        /\ w2 = f2 + 256 * w3
        /\ w3 = 0 - e
        /\ v = 2 * w0
        /\ f0 < 2^10
        /\ f1 < 2^1
        /\ f2 < 2^8
    BY <1>1, <1>2, <1>3, <1>5, <1>9, <1>10
  <2>2. CASE e = 0
    BY <1>12, <2>1, <2>2, SMT DEF SignExtend
  <2>3. CASE e = 1
    BY <1>12, <2>1, <2>3, SMT DEF SignExtend
  <2>4. QED
    BY <2>2, <2>3 DEF Bit
<1>14. Inverse(at, row, 20)
  BY DEF Inverse, Row32, x
<1>15. \A k \in 0 .. 20 : at[k + 1] =
        IF k < 1 THEN 0 ELSE IF k < 11 THEN 12 - k ELSE IF k < 12 THEN 12 ELSE IF k < 20
        THEN 32 - k ELSE 1
  OBVIOUS
<1> HIDE DEF at, row
<1>16. \A k \in 0 .. 31 : RowBit(d, 31, row, 31, k) =
        IF k < 1 THEN 0 ELSE IF k < 11 THEN Bits(d, k + 20, 1) ELSE IF k < 12 THEN Bits(d,
        20, 1) ELSE IF k < 20 THEN Bits(d, k, 1) ELSE Bits(d, 31, 1)
  <2>1. 20 \in 0 .. 31 /\ 31 \in {0, 31}
    OBVIOUS
  <2>2. \A k \in 0 .. 31 : RowBit(d, 31, row, 31, k) = AtBit(at, 20, d, 31, 31, k)
    BY <1>14, <2>1, RowAsDrawn, SMT
  <2>3. QED
    BY <1>15, <2>2 DEF AtBit
<1>17. \A k \in 0 .. 31 : Digit(v, k) =
        IF k < 1 THEN 0 ELSE IF k < 11 THEN Bits(d, k + 20, 1) ELSE IF k < 12 THEN Bits(d,
        20, 1) ELSE IF k < 20 THEN Bits(d, k, 1) ELSE Bits(d, 31, 1)
  BY <1>4, <1>5, <1>6, <1>7, <1>8, <1>9
<1>18. QED
  <2>1. v \in Signed32
    BY <1>9, <1>13, SMT DEF Signed32
  <2>2. \A k \in 0 .. 31 : Digit(v, k) = RowBit(d, 31, row, 31, k)
    BY <1>17, <1>16, Zenon
  <2>3. QED
    BY <1>13, <2>1, <2>2, SMT DEF Draws, row

\* Of the compressed operations with an immediate of six bits.
LEMMA DrawnCI ==
  ASSUME NEW d \in Half \X Half
  PROVE  /\ Draws(inst_citype_read(d).imm, d, 12, <<5, x, x, x, x, x, 4, 3, 2, 1, 0>>, 31)
         /\ Draws(inst_cbtype_read2(d).imm, d, 12, <<5, x, x, x, x, x, 4, 3, 2, 1, 0>>, 31)
<1> DEFINE row == <<5, x, x, x, x, x, 4, 3, 2, 1, 0>>
           at == <<11, 10, 9, 8, 7, 1>>
<1>1. PICK f0 \in Nat : f0 = Bits(d, 2, 5) /\ f0 < 2^5
  BY FieldSizes
<1>2. PICK e \in Bit : e = Bits(d, 12, 1)
  BY OneBit
<1>3. PICK w1 \in Int : w1 = 0 - e /\ \A k \in 0 .. 31 : Digit(w1, k) = e
  BY AllSign DEF Bit
<1>4. PICK w0 \in Int :
        /\ w0 = Above(d, 2, 5, w1)
        /\ \A k \in 0 .. 31 : Digit(w0, k) =
             IF k < 5 THEN Bits(d, 2 + k, 1) ELSE Digit(w1, k - 5)
  <2>1. 5 \in 1 .. 32 /\ 2 \in 0 .. 31 /\ 2 + 5 <= 32 /\ w1 \in Int
    BY <1>3
  <2>2. /\ Above(d, 2, 5, w1) \in Int
        /\ \A k \in 0 .. 31 : Digit(Above(d, 2, 5, w1), k) =
             IF k < 5 THEN Bits(d, 2 + k, 1) ELSE Digit(w1, k - 5)
    BY <2>1, AboveBits, Zenon
  <2>3. QED
    BY <2>2, Zenon
<1>5. w0 = f0 + 32 * w1
  BY <1>1, <1>4 DEF Above
<1>6. /\ inst_citype_read(d).imm =
        SignExtend(Field(d, 12, 1, 5) + Bits(d, 2, 5), 6)
      /\ inst_cbtype_read2(d).imm =
        SignExtend(Field(d, 12, 1, 5) + Bits(d, 2, 5), 6)
  BY ClearedRead, Zenon DEF inst_citype_read, inst_cbtype_read2, Imm6, ShortRead, Read, Fits, Keys
<1>7. /\ inst_citype_read(d).imm = SignExtend(e * 32 + f0, 6)
      /\ inst_cbtype_read2(d).imm = SignExtend(e * 32 + f0, 6)
  BY <1>1, <1>2, <1>6 DEF Field
<1>8. /\ inst_citype_read(d).imm = w0
      /\ inst_cbtype_read2(d).imm = w0
      /\ -32 <= w0 /\ w0 < 32
  <2>1. /\ w0 = f0 + 32 * w1
        /\ w1 = 0 - e
        /\ f0 < 2^5
    BY <1>1, <1>3, <1>5
  <2>2. CASE e = 0
    BY <1>7, <2>1, <2>2, SMT DEF SignExtend
  <2>3. CASE e = 1
    BY <1>7, <2>1, <2>3, SMT DEF SignExtend
  <2>4. QED
    BY <2>2, <2>3 DEF Bit
<1>9. Inverse(at, row, 5)
  BY DEF Inverse, Row32, x
<1>10. \A k \in 0 .. 5 : at[k + 1] =
        IF k < 5 THEN 11 - k ELSE 1
  OBVIOUS
<1> HIDE DEF at, row
<1>11. \A k \in 0 .. 31 : RowBit(d, 12, row, 31, k) =
        IF k < 5 THEN Bits(d, k + 2, 1) ELSE Bits(d, 12, 1)
  <2>1. 5 \in 0 .. 31 /\ 31 \in {0, 31}
    OBVIOUS
  <2>2. \A k \in 0 .. 31 : RowBit(d, 12, row, 31, k) = AtBit(at, 5, d, 12, 31, k)
    BY <1>9, <2>1, RowAsDrawn, SMT
  <2>3. QED
    BY <1>10, <2>2 DEF AtBit
<1>12. \A k \in 0 .. 31 : Digit(w0, k) =
        IF k < 5 THEN Bits(d, k + 2, 1) ELSE Bits(d, 12, 1)
  BY <1>2, <1>3, <1>4
<1>13. QED
  <2>1. w0 \in Signed32
    BY <1>4, <1>8, SMT DEF Signed32
  <2>2. \A k \in 0 .. 31 : Digit(w0, k) = RowBit(d, 12, row, 31, k)
    BY <1>12, <1>11, Zenon
  <2>3. QED
    BY <1>8, <2>1, <2>2, SMT DEF Draws, row

\* Of c.addi16sp.
LEMMA DrawnCI16 ==
  ASSUME NEW d \in Half \X Half
  PROVE  Draws(inst_citype_read3(d).imm, d, 12, <<9, x, x, x, x, x, 4, 6, 8, 7, 5>>, 31)
<1> DEFINE row == <<9, x, x, x, x, x, 4, 6, 8, 7, 5>>
           at == <<0, 0, 0, 0, 7, 11, 8, 10, 9, 1>>
<1>1. PICK f0 \in Nat : f0 = Bits(d, 6, 1) /\ f0 < 2^1
  BY FieldSizes
<1>2. PICK f1 \in Nat : f1 = Bits(d, 2, 1) /\ f1 < 2^1
  BY FieldSizes
<1>3. PICK f2 \in Nat : f2 = Bits(d, 5, 1) /\ f2 < 2^1
  BY FieldSizes
<1>4. PICK f3 \in Nat : f3 = Bits(d, 3, 2) /\ f3 < 2^2
  BY FieldSizes
<1>5. PICK e \in Bit : e = Bits(d, 12, 1)
  BY OneBit
<1>6. PICK w4 \in Int : w4 = 0 - e /\ \A k \in 0 .. 31 : Digit(w4, k) = e
  BY AllSign DEF Bit
<1>7. PICK w3 \in Int :
        /\ w3 = Above(d, 3, 2, w4)
        /\ \A k \in 0 .. 31 : Digit(w3, k) =
             IF k < 2 THEN Bits(d, 3 + k, 1) ELSE Digit(w4, k - 2)
  <2>1. 2 \in 1 .. 32 /\ 3 \in 0 .. 31 /\ 3 + 2 <= 32 /\ w4 \in Int
    BY <1>6
  <2>2. /\ Above(d, 3, 2, w4) \in Int
        /\ \A k \in 0 .. 31 : Digit(Above(d, 3, 2, w4), k) =
             IF k < 2 THEN Bits(d, 3 + k, 1) ELSE Digit(w4, k - 2)
    BY <2>1, AboveBits, ZenonT(60)
  <2>3. QED
    BY <2>2, Zenon
<1>8. PICK w2 \in Int :
        /\ w2 = Above(d, 5, 1, w3)
        /\ \A k \in 0 .. 31 : Digit(w2, k) =
             IF k < 1 THEN Bits(d, 5 + k, 1) ELSE Digit(w3, k - 1)
  <2>1. 1 \in 1 .. 32 /\ 5 \in 0 .. 31 /\ 5 + 1 <= 32 /\ w3 \in Int
    BY <1>7
  <2>2. /\ Above(d, 5, 1, w3) \in Int
        /\ \A k \in 0 .. 31 : Digit(Above(d, 5, 1, w3), k) =
             IF k < 1 THEN Bits(d, 5 + k, 1) ELSE Digit(w3, k - 1)
    BY <2>1, AboveBits, Zenon
  <2>3. QED
    BY <2>2, Zenon
<1>9. PICK w1 \in Int :
        /\ w1 = Above(d, 2, 1, w2)
        /\ \A k \in 0 .. 31 : Digit(w1, k) =
             IF k < 1 THEN Bits(d, 2 + k, 1) ELSE Digit(w2, k - 1)
  <2>1. 1 \in 1 .. 32 /\ 2 \in 0 .. 31 /\ 2 + 1 <= 32 /\ w2 \in Int
    BY <1>8
  <2>2. /\ Above(d, 2, 1, w2) \in Int
        /\ \A k \in 0 .. 31 : Digit(Above(d, 2, 1, w2), k) =
             IF k < 1 THEN Bits(d, 2 + k, 1) ELSE Digit(w2, k - 1)
    BY <2>1, AboveBits, ZenonT(60)
  <2>3. QED
    BY <2>2, Zenon
<1>10. PICK w0 \in Int :
        /\ w0 = Above(d, 6, 1, w1)
        /\ \A k \in 0 .. 31 : Digit(w0, k) =
             IF k < 1 THEN Bits(d, 6 + k, 1) ELSE Digit(w1, k - 1)
  <2>1. 1 \in 1 .. 32 /\ 6 \in 0 .. 31 /\ 6 + 1 <= 32 /\ w1 \in Int
    BY <1>9
  <2>2. /\ Above(d, 6, 1, w1) \in Int
        /\ \A k \in 0 .. 31 : Digit(Above(d, 6, 1, w1), k) =
             IF k < 1 THEN Bits(d, 6 + k, 1) ELSE Digit(w1, k - 1)
    BY <2>1, AboveBits, ZenonT(60)
  <2>3. QED
    BY <2>2, Zenon
<1>11. PICK v \in Int :
        /\ v = 16 * w0
        /\ \A k \in 0 .. 31 : Digit(v, k) = IF k < 4 THEN 0 ELSE Digit(w0, k - 4)
  <2>1. PICK p \in Int : p = 2^4
    BY SMT
  <2>2. 4 \in 1 .. 31 /\ w0 \in Int
    BY <1>10
  <2>3. /\ p * w0 \in Int
        /\ \A k \in 0 .. 31 : Digit(p * w0, k) = IF k < 4 THEN 0 ELSE Digit(w0, k - 4)
    BY <2>1, <2>2, Zeros, Zenon
  <2>4. QED
    BY <2>1, <2>3, SMT
<1>12. /\ w3 = f3 + 4 * w4
      /\ w2 = f2 + 2 * w3
      /\ w1 = f1 + 2 * w2
      /\ w0 = f0 + 2 * w1
  BY <1>1, <1>2, <1>3, <1>4, <1>7, <1>8, <1>9, <1>10 DEF Above
<1>13. inst_citype_read3(d).imm =
        SignExtend(Field(d, 2, 1, 5) + Field(d, 3, 2, 7) + Field(d, 5, 1, 6) + Field(d, 6,
          1, 4) + Field(d, 12, 1, 9), 10)
  BY ClearedRead, Zenon DEF inst_citype_read3, ShortRead, Read, Fits, Keys
<1>14. inst_citype_read3(d).imm = SignExtend(f1 * 32 + f3 * 128 + f2 * 64 + f0 * 16 + e * 512, 10)
  BY <1>1, <1>2, <1>3, <1>4, <1>5, <1>13 DEF Field
<1>15. /\ inst_citype_read3(d).imm = v
      /\ -512 <= v /\ v < 512
  <2>1. /\ w0 = f0 + 2 * w1
        /\ w1 = f1 + 2 * w2
        /\ w2 = f2 + 2 * w3
        /\ w3 = f3 + 4 * w4
        /\ w4 = 0 - e
        /\ v = 16 * w0
        /\ f0 < 2^1
        /\ f1 < 2^1
        /\ f2 < 2^1
        /\ f3 < 2^2
    BY <1>1, <1>2, <1>3, <1>4, <1>6, <1>11, <1>12
  <2>2. CASE e = 0
    BY <1>14, <2>1, <2>2, SMT DEF SignExtend
  <2>3. CASE e = 1
    BY <1>14, <2>1, <2>3, SMT DEF SignExtend
  <2>4. QED
    BY <2>2, <2>3 DEF Bit
<1>16. Inverse(at, row, 9)
  BY DEF Inverse, Row32, x
<1>17. \A k \in 0 .. 9 : at[k + 1] =
        IF k < 4 THEN 0 ELSE IF k < 5 THEN 7 ELSE IF k < 6 THEN 11 ELSE IF k < 7 THEN 8 ELSE
        IF k < 9 THEN 17 - k ELSE 1
  OBVIOUS
<1> HIDE DEF at, row
<1>18. \A k \in 0 .. 31 : RowBit(d, 12, row, 31, k) =
        IF k < 4 THEN 0 ELSE IF k < 5 THEN Bits(d, 6, 1) ELSE IF k < 6 THEN Bits(d, 2, 1)
        ELSE IF k < 7 THEN Bits(d, 5, 1) ELSE IF k < 9 THEN Bits(d, k - 4, 1) ELSE Bits(d,
        12, 1)
  <2>1. 9 \in 0 .. 31 /\ 31 \in {0, 31}
    OBVIOUS
  <2>2. \A k \in 0 .. 31 : RowBit(d, 12, row, 31, k) = AtBit(at, 9, d, 12, 31, k)
    BY <1>16, <2>1, RowAsDrawn, SMT
  <2>3. QED
    BY <1>17, <2>2 DEF AtBit
<1>19. \A k \in 0 .. 31 : Digit(v, k) =
        IF k < 4 THEN 0 ELSE IF k < 5 THEN Bits(d, 6, 1) ELSE IF k < 6 THEN Bits(d, 2, 1)
        ELSE IF k < 7 THEN Bits(d, 5, 1) ELSE IF k < 9 THEN Bits(d, k - 4, 1) ELSE Bits(d,
        12, 1)
  BY <1>5, <1>6, <1>7, <1>8, <1>9, <1>10, <1>11
<1>20. QED
  <2>1. v \in Signed32
    BY <1>11, <1>15, SMT DEF Signed32
  <2>2. \A k \in 0 .. 31 : Digit(v, k) = RowBit(d, 12, row, 31, k)
    BY <1>19, <1>18, Zenon
  <2>3. QED
    BY <1>15, <2>1, <2>2, SMT DEF Draws, row

\* Of c.lui.
LEMMA DrawnCLui ==
  ASSUME NEW d \in Half \X Half
  PROVE  Draws(inst_citype_read5(d).imm, d, 12, <<17, x, x, x, x, x, 16, 15, 14, 13, 12>>, 31)
<1> DEFINE row == <<17, x, x, x, x, x, 16, 15, 14, 13, 12>>
           at == <<0, 0, 0, 0, 0, 0, 0, 0, 0, 0, 0, 0, 11, 10, 9, 8, 7, 1>>
<1>1. PICK f0 \in Nat : f0 = Bits(d, 2, 5) /\ f0 < 2^5
  BY FieldSizes
<1>2. PICK e \in Bit : e = Bits(d, 12, 1)
  BY OneBit
<1>3. PICK w1 \in Int : w1 = 0 - e /\ \A k \in 0 .. 31 : Digit(w1, k) = e
  BY AllSign DEF Bit
<1>4. PICK w0 \in Int :
        /\ w0 = Above(d, 2, 5, w1)
        /\ \A k \in 0 .. 31 : Digit(w0, k) =
             IF k < 5 THEN Bits(d, 2 + k, 1) ELSE Digit(w1, k - 5)
  <2>1. 5 \in 1 .. 32 /\ 2 \in 0 .. 31 /\ 2 + 5 <= 32 /\ w1 \in Int
    BY <1>3
  <2>2. /\ Above(d, 2, 5, w1) \in Int
        /\ \A k \in 0 .. 31 : Digit(Above(d, 2, 5, w1), k) =
             IF k < 5 THEN Bits(d, 2 + k, 1) ELSE Digit(w1, k - 5)
    BY <2>1, AboveBits, Zenon
  <2>3. QED
    BY <2>2, Zenon
<1>5. PICK v \in Int :
        /\ v = 4096 * w0
        /\ \A k \in 0 .. 31 : Digit(v, k) = IF k < 12 THEN 0 ELSE Digit(w0, k - 12)
  <2>1. PICK p \in Int : p = 2^12
    BY SMT
  <2>2. 12 \in 1 .. 31 /\ w0 \in Int
    BY <1>4
  <2>3. /\ p * w0 \in Int
        /\ \A k \in 0 .. 31 : Digit(p * w0, k) = IF k < 12 THEN 0 ELSE Digit(w0, k - 12)
    BY <2>1, <2>2, Zeros, Zenon
  <2>4. QED
    BY <2>1, <2>3, SMT
<1>6. w0 = f0 + 32 * w1
  BY <1>1, <1>4 DEF Above
<1>7. inst_citype_read5(d).imm =
        SignExtend(Field(d, 2, 5, 12) + Field(d, 12, 1, 17), 18)
  BY ClearedRead, Zenon DEF inst_citype_read5, ShortRead, Read, Fits, Keys
<1>8. inst_citype_read5(d).imm = SignExtend(f0 * 4096 + e * 131072, 18)
  BY <1>1, <1>2, <1>7 DEF Field
<1>9. /\ inst_citype_read5(d).imm = v
      /\ -131072 <= v /\ v < 131072
  <2>1. /\ w0 = f0 + 32 * w1
        /\ w1 = 0 - e
        /\ v = 4096 * w0
        /\ f0 < 2^5
    BY <1>1, <1>3, <1>5, <1>6
  <2>2. CASE e = 0
    BY <1>8, <2>1, <2>2, SMT DEF SignExtend
  <2>3. CASE e = 1
    BY <1>8, <2>1, <2>3, SMT DEF SignExtend
  <2>4. QED
    BY <2>2, <2>3 DEF Bit
<1>10. Inverse(at, row, 17)
  BY DEF Inverse, Row32, x
<1>11. \A k \in 0 .. 17 : at[k + 1] =
        IF k < 12 THEN 0 ELSE IF k < 17 THEN 23 - k ELSE 1
  OBVIOUS
<1> HIDE DEF at, row
<1>12. \A k \in 0 .. 31 : RowBit(d, 12, row, 31, k) =
        IF k < 12 THEN 0 ELSE IF k < 17 THEN Bits(d, k - 10, 1) ELSE Bits(d, 12, 1)
  <2>1. 17 \in 0 .. 31 /\ 31 \in {0, 31}
    OBVIOUS
  <2>2. \A k \in 0 .. 31 : RowBit(d, 12, row, 31, k) = AtBit(at, 17, d, 12, 31, k)
    BY <1>10, <2>1, RowAsDrawn, SMT
  <2>3. QED
    BY <1>11, <2>2 DEF AtBit
<1>13. \A k \in 0 .. 31 : Digit(v, k) =
        IF k < 12 THEN 0 ELSE IF k < 17 THEN Bits(d, k - 10, 1) ELSE Bits(d, 12, 1)
  BY <1>2, <1>3, <1>4, <1>5
<1>14. QED
  <2>1. v \in Signed32
    BY <1>5, <1>9, SMT DEF Signed32
  <2>2. \A k \in 0 .. 31 : Digit(v, k) = RowBit(d, 12, row, 31, k)
    BY <1>13, <1>12, Zenon
  <2>3. QED
    BY <1>9, <2>1, <2>2, SMT DEF Draws, row

\* Of c.j.
LEMMA DrawnCJ ==
  ASSUME NEW d \in Half \X Half
  PROVE  Draws(inst_cjtype_read(d).imm, d, 12, <<11, 4, 9, 8, 10, 6, 7, 3, 2, 1, 5>>, 31)
<1> DEFINE row == <<11, 4, 9, 8, 10, 6, 7, 3, 2, 1, 5>>
           at == <<0, 10, 9, 8, 2, 11, 6, 7, 4, 3, 5, 1>>
<1>1. PICK f0 \in Nat : f0 = Bits(d, 3, 3) /\ f0 < 2^3
  BY FieldSizes
<1>2. PICK f1 \in Nat : f1 = Bits(d, 11, 1) /\ f1 < 2^1
  BY FieldSizes
<1>3. PICK f2 \in Nat : f2 = Bits(d, 2, 1) /\ f2 < 2^1
  BY FieldSizes
<1>4. PICK f3 \in Nat : f3 = Bits(d, 7, 1) /\ f3 < 2^1
  BY FieldSizes
<1>5. PICK f4 \in Nat : f4 = Bits(d, 6, 1) /\ f4 < 2^1
  BY FieldSizes
<1>6. PICK f5 \in Nat : f5 = Bits(d, 9, 2) /\ f5 < 2^2
  BY FieldSizes
<1>7. PICK f6 \in Nat : f6 = Bits(d, 8, 1) /\ f6 < 2^1
  BY FieldSizes
<1>8. PICK e \in Bit : e = Bits(d, 12, 1)
  BY OneBit
<1>9. PICK w7 \in Int : w7 = 0 - e /\ \A k \in 0 .. 31 : Digit(w7, k) = e
  BY AllSign DEF Bit
<1>10. PICK w6 \in Int :
        /\ w6 = Above(d, 8, 1, w7)
        /\ \A k \in 0 .. 31 : Digit(w6, k) =
             IF k < 1 THEN Bits(d, 8 + k, 1) ELSE Digit(w7, k - 1)
  <2>1. 1 \in 1 .. 32 /\ 8 \in 0 .. 31 /\ 8 + 1 <= 32 /\ w7 \in Int
    BY <1>9
  <2>2. /\ Above(d, 8, 1, w7) \in Int
        /\ \A k \in 0 .. 31 : Digit(Above(d, 8, 1, w7), k) =
             IF k < 1 THEN Bits(d, 8 + k, 1) ELSE Digit(w7, k - 1)
    BY <2>1, AboveBits, Zenon
  <2>3. QED
    BY <2>2, Zenon
<1>11. PICK w5 \in Int :
        /\ w5 = Above(d, 9, 2, w6)
        /\ \A k \in 0 .. 31 : Digit(w5, k) =
             IF k < 2 THEN Bits(d, 9 + k, 1) ELSE Digit(w6, k - 2)
  <2>1. 2 \in 1 .. 32 /\ 9 \in 0 .. 31 /\ 9 + 2 <= 32 /\ w6 \in Int
    BY <1>10
  <2>2. /\ Above(d, 9, 2, w6) \in Int
        /\ \A k \in 0 .. 31 : Digit(Above(d, 9, 2, w6), k) =
             IF k < 2 THEN Bits(d, 9 + k, 1) ELSE Digit(w6, k - 2)
    BY <2>1, AboveBits, ZenonT(60)
  <2>3. QED
    BY <2>2, Zenon
<1>12. PICK w4 \in Int :
        /\ w4 = Above(d, 6, 1, w5)
        /\ \A k \in 0 .. 31 : Digit(w4, k) =
             IF k < 1 THEN Bits(d, 6 + k, 1) ELSE Digit(w5, k - 1)
  <2>1. 1 \in 1 .. 32 /\ 6 \in 0 .. 31 /\ 6 + 1 <= 32 /\ w5 \in Int
    BY <1>11
  <2>2. /\ Above(d, 6, 1, w5) \in Int
        /\ \A k \in 0 .. 31 : Digit(Above(d, 6, 1, w5), k) =
             IF k < 1 THEN Bits(d, 6 + k, 1) ELSE Digit(w5, k - 1)
    BY <2>1, AboveBits, ZenonT(60)
  <2>3. QED
    BY <2>2, Zenon
<1>13. PICK w3 \in Int :
        /\ w3 = Above(d, 7, 1, w4)
        /\ \A k \in 0 .. 31 : Digit(w3, k) =
             IF k < 1 THEN Bits(d, 7 + k, 1) ELSE Digit(w4, k - 1)
  <2>1. 1 \in 1 .. 32 /\ 7 \in 0 .. 31 /\ 7 + 1 <= 32 /\ w4 \in Int
    BY <1>12
  <2>2. /\ Above(d, 7, 1, w4) \in Int
        /\ \A k \in 0 .. 31 : Digit(Above(d, 7, 1, w4), k) =
             IF k < 1 THEN Bits(d, 7 + k, 1) ELSE Digit(w4, k - 1)
    BY <2>1, AboveBits, ZenonT(60)
  <2>3. QED
    BY <2>2, Zenon
<1>14. PICK w2 \in Int :
        /\ w2 = Above(d, 2, 1, w3)
        /\ \A k \in 0 .. 31 : Digit(w2, k) =
             IF k < 1 THEN Bits(d, 2 + k, 1) ELSE Digit(w3, k - 1)
  <2>1. 1 \in 1 .. 32 /\ 2 \in 0 .. 31 /\ 2 + 1 <= 32 /\ w3 \in Int
    BY <1>13
  <2>2. /\ Above(d, 2, 1, w3) \in Int
        /\ \A k \in 0 .. 31 : Digit(Above(d, 2, 1, w3), k) =
             IF k < 1 THEN Bits(d, 2 + k, 1) ELSE Digit(w3, k - 1)
    BY <2>1, AboveBits, ZenonT(60)
  <2>3. QED
    BY <2>2, Zenon
<1>15. PICK w1 \in Int :
        /\ w1 = Above(d, 11, 1, w2)
        /\ \A k \in 0 .. 31 : Digit(w1, k) =
             IF k < 1 THEN Bits(d, 11 + k, 1) ELSE Digit(w2, k - 1)
  <2>1. 1 \in 1 .. 32 /\ 11 \in 0 .. 31 /\ 11 + 1 <= 32 /\ w2 \in Int
    BY <1>14
  <2>2. /\ Above(d, 11, 1, w2) \in Int
        /\ \A k \in 0 .. 31 : Digit(Above(d, 11, 1, w2), k) =
             IF k < 1 THEN Bits(d, 11 + k, 1) ELSE Digit(w2, k - 1)
    BY <2>1, AboveBits, ZenonT(60)
  <2>3. QED
    BY <2>2, Zenon
<1>16. PICK w0 \in Int :
        /\ w0 = Above(d, 3, 3, w1)
        /\ \A k \in 0 .. 31 : Digit(w0, k) =
             IF k < 3 THEN Bits(d, 3 + k, 1) ELSE Digit(w1, k - 3)
  <2>1. 3 \in 1 .. 32 /\ 3 \in 0 .. 31 /\ 3 + 3 <= 32 /\ w1 \in Int
    BY <1>15
  <2>2. /\ Above(d, 3, 3, w1) \in Int
        /\ \A k \in 0 .. 31 : Digit(Above(d, 3, 3, w1), k) =
             IF k < 3 THEN Bits(d, 3 + k, 1) ELSE Digit(w1, k - 3)
    BY <2>1, AboveBits, ZenonT(60)
  <2>3. QED
    BY <2>2, Zenon
<1>17. PICK v \in Int :
        /\ v = 2 * w0
        /\ \A k \in 0 .. 31 : Digit(v, k) = IF k < 1 THEN 0 ELSE Digit(w0, k - 1)
  <2>1. PICK p \in Int : p = 2^1
    BY SMT
  <2>2. 1 \in 1 .. 31 /\ w0 \in Int
    BY <1>16
  <2>3. /\ p * w0 \in Int
        /\ \A k \in 0 .. 31 : Digit(p * w0, k) = IF k < 1 THEN 0 ELSE Digit(w0, k - 1)
    BY <2>1, <2>2, Zeros, ZenonT(60)
  <2>4. QED
    BY <2>1, <2>3, SMT
<1>18. /\ w6 = f6 + 2 * w7
      /\ w5 = f5 + 4 * w6
      /\ w4 = f4 + 2 * w5
      /\ w3 = f3 + 2 * w4
      /\ w2 = f2 + 2 * w3
      /\ w1 = f1 + 2 * w2
      /\ w0 = f0 + 8 * w1
  BY <1>1, <1>2, <1>3, <1>4, <1>5, <1>6, <1>7, <1>10, <1>11, <1>12, <1>13, <1>14, <1>15, <1>16
     DEF Above
<1>19. inst_cjtype_read(d).imm =
        SignExtend(Field(d, 2, 1, 5) + Field(d, 3, 3, 1) + Field(d, 6, 1, 7) + Field(d, 7,
          1, 6) + Field(d, 8, 1, 10) + Field(d, 9, 2, 8) + Field(d, 11, 1, 4) + Field(d, 12,
          1, 11), 12)
  BY ClearedRead, Zenon DEF inst_cjtype_read, ShortRead, Read, Fits, Keys
<1>20. inst_cjtype_read(d).imm = 
          SignExtend(f2 * 32 + f0 * 2 + f4 * 128 + f3 * 64 + f6 * 1024 + f5 * 256 + f1 * 16
          + e * 2048, 12)
  BY <1>1, <1>2, <1>3, <1>4, <1>5, <1>6, <1>7, <1>8, <1>19 DEF Field
<1>21. /\ inst_cjtype_read(d).imm = v
      /\ -2048 <= v /\ v < 2048
  <2>1. /\ w0 = f0 + 8 * w1
        /\ w1 = f1 + 2 * w2
        /\ w2 = f2 + 2 * w3
        /\ w3 = f3 + 2 * w4
        /\ w4 = f4 + 2 * w5
        /\ w5 = f5 + 4 * w6
        /\ w6 = f6 + 2 * w7
        /\ w7 = 0 - e
        /\ v = 2 * w0
        /\ f0 < 2^3
        /\ f1 < 2^1
        /\ f2 < 2^1
        /\ f3 < 2^1
        /\ f4 < 2^1
        /\ f5 < 2^2
        /\ f6 < 2^1
    BY <1>1, <1>2, <1>3, <1>4, <1>5, <1>6, <1>7, <1>9, <1>17, <1>18
  <2>2. CASE e = 0
    BY <1>20, <2>1, <2>2, SMT DEF SignExtend
  <2>3. CASE e = 1
    BY <1>20, <2>1, <2>3, SMT DEF SignExtend
  <2>4. QED
    BY <2>2, <2>3 DEF Bit
<1>22. Inverse(at, row, 11)
  BY DEF Inverse, Row32, x
<1>23. \A k \in 0 .. 11 : at[k + 1] =
        IF k < 1 THEN 0 ELSE IF k < 4 THEN 11 - k ELSE IF k < 5 THEN 2 ELSE IF k < 6 THEN 11
        ELSE IF k < 7 THEN 6 ELSE IF k < 8 THEN 7 ELSE IF k < 10 THEN 12 - k ELSE IF k < 11
        THEN 5 ELSE 1
  OBVIOUS
<1> HIDE DEF at, row
<1>24. \A k \in 0 .. 31 : RowBit(d, 12, row, 31, k) =
        IF k < 1 THEN 0 ELSE IF k < 4 THEN Bits(d, k + 2, 1) ELSE IF k < 5 THEN Bits(d, 11,
        1) ELSE IF k < 6 THEN Bits(d, 2, 1) ELSE IF k < 7 THEN Bits(d, 7, 1) ELSE IF k < 8
        THEN Bits(d, 6, 1) ELSE IF k < 10 THEN Bits(d, k + 1, 1) ELSE IF k < 11 THEN Bits(d,
        8, 1) ELSE Bits(d, 12, 1)
  <2>1. 11 \in 0 .. 31 /\ 31 \in {0, 31}
    OBVIOUS
  <2>2. \A k \in 0 .. 31 : RowBit(d, 12, row, 31, k) = AtBit(at, 11, d, 12, 31, k)
    BY <1>22, <2>1, RowAsDrawn, SMT
  <2>3. QED
    BY <1>23, <2>2 DEF AtBit
<1>25. \A k \in 0 .. 31 : Digit(v, k) =
        IF k < 1 THEN 0 ELSE IF k < 4 THEN Bits(d, k + 2, 1) ELSE IF k < 5 THEN Bits(d, 11,
        1) ELSE IF k < 6 THEN Bits(d, 2, 1) ELSE IF k < 7 THEN Bits(d, 7, 1) ELSE IF k < 8
        THEN Bits(d, 6, 1) ELSE IF k < 10 THEN Bits(d, k + 1, 1) ELSE IF k < 11 THEN Bits(d,
        8, 1) ELSE Bits(d, 12, 1)
  BY <1>8, <1>9, <1>10, <1>11, <1>12, <1>13, <1>14, <1>15, <1>16, <1>17
<1>26. QED
  <2>1. v \in Signed32
    BY <1>17, <1>21, SMT DEF Signed32
  <2>2. \A k \in 0 .. 31 : Digit(v, k) = RowBit(d, 12, row, 31, k)
    BY <1>25, <1>24, Zenon
  <2>3. QED
    BY <1>21, <2>1, <2>2, SMT DEF Draws, row

\* Of c.beqz and c.bnez.
LEMMA DrawnCB ==
  ASSUME NEW d \in Half \X Half
  PROVE  Draws(inst_cbtype_read(d).imm, d, 12, <<8, 4, 3, x, x, x, 7, 6, 2, 1, 5>>, 31)
<1> DEFINE row == <<8, 4, 3, x, x, x, 7, 6, 2, 1, 5>>
           at == <<0, 10, 9, 3, 2, 11, 8, 7, 1>>
<1>1. PICK f0 \in Nat : f0 = Bits(d, 3, 2) /\ f0 < 2^2
  BY FieldSizes
<1>2. PICK f1 \in Nat : f1 = Bits(d, 10, 2) /\ f1 < 2^2
  BY FieldSizes
<1>3. PICK f2 \in Nat : f2 = Bits(d, 2, 1) /\ f2 < 2^1
  BY FieldSizes
<1>4. PICK f3 \in Nat : f3 = Bits(d, 5, 2) /\ f3 < 2^2
  BY FieldSizes
<1>5. PICK e \in Bit : e = Bits(d, 12, 1)
  BY OneBit
<1>6. PICK w4 \in Int : w4 = 0 - e /\ \A k \in 0 .. 31 : Digit(w4, k) = e
  BY AllSign DEF Bit
<1>7. PICK w3 \in Int :
        /\ w3 = Above(d, 5, 2, w4)
        /\ \A k \in 0 .. 31 : Digit(w3, k) =
             IF k < 2 THEN Bits(d, 5 + k, 1) ELSE Digit(w4, k - 2)
  <2>1. 2 \in 1 .. 32 /\ 5 \in 0 .. 31 /\ 5 + 2 <= 32 /\ w4 \in Int
    BY <1>6
  <2>2. /\ Above(d, 5, 2, w4) \in Int
        /\ \A k \in 0 .. 31 : Digit(Above(d, 5, 2, w4), k) =
             IF k < 2 THEN Bits(d, 5 + k, 1) ELSE Digit(w4, k - 2)
    BY <2>1, AboveBits, ZenonT(60)
  <2>3. QED
    BY <2>2, Zenon
<1>8. PICK w2 \in Int :
        /\ w2 = Above(d, 2, 1, w3)
        /\ \A k \in 0 .. 31 : Digit(w2, k) =
             IF k < 1 THEN Bits(d, 2 + k, 1) ELSE Digit(w3, k - 1)
  <2>1. 1 \in 1 .. 32 /\ 2 \in 0 .. 31 /\ 2 + 1 <= 32 /\ w3 \in Int
    BY <1>7
  <2>2. /\ Above(d, 2, 1, w3) \in Int
        /\ \A k \in 0 .. 31 : Digit(Above(d, 2, 1, w3), k) =
             IF k < 1 THEN Bits(d, 2 + k, 1) ELSE Digit(w3, k - 1)
    BY <2>1, AboveBits, ZenonT(60)
  <2>3. QED
    BY <2>2, Zenon
<1>9. PICK w1 \in Int :
        /\ w1 = Above(d, 10, 2, w2)
        /\ \A k \in 0 .. 31 : Digit(w1, k) =
             IF k < 2 THEN Bits(d, 10 + k, 1) ELSE Digit(w2, k - 2)
  <2>1. 2 \in 1 .. 32 /\ 10 \in 0 .. 31 /\ 10 + 2 <= 32 /\ w2 \in Int
    BY <1>8
  <2>2. /\ Above(d, 10, 2, w2) \in Int
        /\ \A k \in 0 .. 31 : Digit(Above(d, 10, 2, w2), k) =
             IF k < 2 THEN Bits(d, 10 + k, 1) ELSE Digit(w2, k - 2)
    BY <2>1, AboveBits, ZenonT(60)
  <2>3. QED
    BY <2>2, Zenon
<1>10. PICK w0 \in Int :
        /\ w0 = Above(d, 3, 2, w1)
        /\ \A k \in 0 .. 31 : Digit(w0, k) =
             IF k < 2 THEN Bits(d, 3 + k, 1) ELSE Digit(w1, k - 2)
  <2>1. 2 \in 1 .. 32 /\ 3 \in 0 .. 31 /\ 3 + 2 <= 32 /\ w1 \in Int
    BY <1>9
  <2>2. /\ Above(d, 3, 2, w1) \in Int
        /\ \A k \in 0 .. 31 : Digit(Above(d, 3, 2, w1), k) =
             IF k < 2 THEN Bits(d, 3 + k, 1) ELSE Digit(w1, k - 2)
    BY <2>1, AboveBits, ZenonT(60)
  <2>3. QED
    BY <2>2, Zenon
<1>11. PICK v \in Int :
        /\ v = 2 * w0
        /\ \A k \in 0 .. 31 : Digit(v, k) = IF k < 1 THEN 0 ELSE Digit(w0, k - 1)
  <2>1. PICK p \in Int : p = 2^1
    BY SMT
  <2>2. 1 \in 1 .. 31 /\ w0 \in Int
    BY <1>10
  <2>3. /\ p * w0 \in Int
        /\ \A k \in 0 .. 31 : Digit(p * w0, k) = IF k < 1 THEN 0 ELSE Digit(w0, k - 1)
    BY <2>1, <2>2, Zeros, ZenonT(60)
  <2>4. QED
    BY <2>1, <2>3, SMT
<1>12. /\ w3 = f3 + 4 * w4
      /\ w2 = f2 + 2 * w3
      /\ w1 = f1 + 4 * w2
      /\ w0 = f0 + 4 * w1
  BY <1>1, <1>2, <1>3, <1>4, <1>7, <1>8, <1>9, <1>10 DEF Above
<1>13. inst_cbtype_read(d).imm =
        SignExtend(Field(d, 12, 1, 8) + Field(d, 5, 2, 6) + Field(d, 2, 1, 5) + Field(d,
          10, 2, 3) + Field(d, 3, 2, 1), 9)
  BY ClearedRead, Zenon DEF inst_cbtype_read, ShortRead, Read, Fits, Keys
<1>14. inst_cbtype_read(d).imm = SignExtend(e * 256 + f3 * 64 + f2 * 32 + f1 * 8 + f0 * 2, 9)
  BY <1>1, <1>2, <1>3, <1>4, <1>5, <1>13 DEF Field
<1>15. /\ inst_cbtype_read(d).imm = v
      /\ -256 <= v /\ v < 256
  <2>1. /\ w0 = f0 + 4 * w1
        /\ w1 = f1 + 4 * w2
        /\ w2 = f2 + 2 * w3
        /\ w3 = f3 + 4 * w4
        /\ w4 = 0 - e
        /\ v = 2 * w0
        /\ f0 < 2^2
        /\ f1 < 2^2
        /\ f2 < 2^1
        /\ f3 < 2^2
    BY <1>1, <1>2, <1>3, <1>4, <1>6, <1>11, <1>12
  <2>2. CASE e = 0
    BY <1>14, <2>1, <2>2, SMT DEF SignExtend
  <2>3. CASE e = 1
    BY <1>14, <2>1, <2>3, SMT DEF SignExtend
  <2>4. QED
    BY <2>2, <2>3 DEF Bit
<1>16. Inverse(at, row, 8)
  BY DEF Inverse, Row32, x
<1>17. \A k \in 0 .. 8 : at[k + 1] =
        IF k < 1 THEN 0 ELSE IF k < 3 THEN 11 - k ELSE IF k < 5 THEN 6 - k ELSE IF k < 6
        THEN 11 ELSE IF k < 8 THEN 14 - k ELSE 1
  OBVIOUS
<1> HIDE DEF at, row
<1>18. \A k \in 0 .. 31 : RowBit(d, 12, row, 31, k) =
        IF k < 1 THEN 0 ELSE IF k < 3 THEN Bits(d, k + 2, 1) ELSE IF k < 5 THEN Bits(d, k +
        7, 1) ELSE IF k < 6 THEN Bits(d, 2, 1) ELSE IF k < 8 THEN Bits(d, k - 1, 1) ELSE
        Bits(d, 12, 1)
  <2>1. 8 \in 0 .. 31 /\ 31 \in {0, 31}
    OBVIOUS
  <2>2. \A k \in 0 .. 31 : RowBit(d, 12, row, 31, k) = AtBit(at, 8, d, 12, 31, k)
    BY <1>16, <2>1, RowAsDrawn, SMT
  <2>3. QED
    BY <1>17, <2>2 DEF AtBit
<1>19. \A k \in 0 .. 31 : Digit(v, k) =
        IF k < 1 THEN 0 ELSE IF k < 3 THEN Bits(d, k + 2, 1) ELSE IF k < 5 THEN Bits(d, k +
        7, 1) ELSE IF k < 6 THEN Bits(d, 2, 1) ELSE IF k < 8 THEN Bits(d, k - 1, 1) ELSE
        Bits(d, 12, 1)
  BY <1>5, <1>6, <1>7, <1>8, <1>9, <1>10, <1>11
<1>20. QED
  <2>1. v \in Signed32
    BY <1>11, <1>15, SMT DEF Signed32
  <2>2. \A k \in 0 .. 31 : Digit(v, k) = RowBit(d, 12, row, 31, k)
    BY <1>19, <1>18, Zenon
  <2>3. QED
    BY <1>15, <2>1, <2>2, SMT DEF Draws, row

\* Of c.addi4spn.
LEMMA DrawnCIW ==
  ASSUME NEW d \in Half \X Half
  PROVE  Draws(inst_ciwtype_read(d).imm, d, 12, <<5, 4, 9, 8, 7, 6, 2, 3, x, x, x>>, 0)
<1> DEFINE row == <<5, 4, 9, 8, 7, 6, 2, 3, x, x, x>>
           at == <<0, 0, 7, 8, 2, 1, 6, 5, 4, 3>>
<1>1. PICK f0 \in Nat : f0 = Bits(d, 6, 1) /\ f0 < 2^1
  BY FieldSizes
<1>2. PICK f1 \in Nat : f1 = Bits(d, 5, 1) /\ f1 < 2^1
  BY FieldSizes
<1>3. PICK f2 \in Nat : f2 = Bits(d, 11, 2) /\ f2 < 2^2
  BY FieldSizes
<1>4. PICK f3 \in Nat : f3 = Bits(d, 7, 4) /\ f3 < 2^4
  BY FieldSizes
<1>5. PICK w4 \in Int : w4 = 0 /\ \A k \in 0 .. 31 : Digit(w4, k) = 0
  BY ZeroDigits
<1>6. PICK w3 \in Int :
        /\ w3 = Above(d, 7, 4, w4)
        /\ \A k \in 0 .. 31 : Digit(w3, k) =
             IF k < 4 THEN Bits(d, 7 + k, 1) ELSE Digit(w4, k - 4)
  <2>1. 4 \in 1 .. 32 /\ 7 \in 0 .. 31 /\ 7 + 4 <= 32 /\ w4 \in Int
    BY <1>5
  <2>2. /\ Above(d, 7, 4, w4) \in Int
        /\ \A k \in 0 .. 31 : Digit(Above(d, 7, 4, w4), k) =
             IF k < 4 THEN Bits(d, 7 + k, 1) ELSE Digit(w4, k - 4)
    BY <2>1, AboveBits, Zenon
  <2>3. QED
    BY <2>2, Zenon
<1>7. PICK w2 \in Int :
        /\ w2 = Above(d, 11, 2, w3)
        /\ \A k \in 0 .. 31 : Digit(w2, k) =
             IF k < 2 THEN Bits(d, 11 + k, 1) ELSE Digit(w3, k - 2)
  <2>1. 2 \in 1 .. 32 /\ 11 \in 0 .. 31 /\ 11 + 2 <= 32 /\ w3 \in Int
    BY <1>6
  <2>2. /\ Above(d, 11, 2, w3) \in Int
        /\ \A k \in 0 .. 31 : Digit(Above(d, 11, 2, w3), k) =
             IF k < 2 THEN Bits(d, 11 + k, 1) ELSE Digit(w3, k - 2)
    BY <2>1, AboveBits, ZenonT(60)
  <2>3. QED
    BY <2>2, Zenon
<1>8. PICK w1 \in Int :
        /\ w1 = Above(d, 5, 1, w2)
        /\ \A k \in 0 .. 31 : Digit(w1, k) =
             IF k < 1 THEN Bits(d, 5 + k, 1) ELSE Digit(w2, k - 1)
  <2>1. 1 \in 1 .. 32 /\ 5 \in 0 .. 31 /\ 5 + 1 <= 32 /\ w2 \in Int
    BY <1>7
  <2>2. /\ Above(d, 5, 1, w2) \in Int
        /\ \A k \in 0 .. 31 : Digit(Above(d, 5, 1, w2), k) =
             IF k < 1 THEN Bits(d, 5 + k, 1) ELSE Digit(w2, k - 1)
    BY <2>1, AboveBits, ZenonT(60)
  <2>3. QED
    BY <2>2, Zenon
<1>9. PICK w0 \in Int :
        /\ w0 = Above(d, 6, 1, w1)
        /\ \A k \in 0 .. 31 : Digit(w0, k) =
             IF k < 1 THEN Bits(d, 6 + k, 1) ELSE Digit(w1, k - 1)
  <2>1. 1 \in 1 .. 32 /\ 6 \in 0 .. 31 /\ 6 + 1 <= 32 /\ w1 \in Int
    BY <1>8
  <2>2. /\ Above(d, 6, 1, w1) \in Int
        /\ \A k \in 0 .. 31 : Digit(Above(d, 6, 1, w1), k) =
             IF k < 1 THEN Bits(d, 6 + k, 1) ELSE Digit(w1, k - 1)
    BY <2>1, AboveBits, ZenonT(60)
  <2>3. QED
    BY <2>2, Zenon
<1>10. PICK v \in Int :
        /\ v = 4 * w0
        /\ \A k \in 0 .. 31 : Digit(v, k) = IF k < 2 THEN 0 ELSE Digit(w0, k - 2)
  <2>1. PICK p \in Int : p = 2^2
    BY SMT
  <2>2. 2 \in 1 .. 31 /\ w0 \in Int
    BY <1>9
  <2>3. /\ p * w0 \in Int
        /\ \A k \in 0 .. 31 : Digit(p * w0, k) = IF k < 2 THEN 0 ELSE Digit(w0, k - 2)
    BY <2>1, <2>2, Zeros, ZenonT(60)
  <2>4. QED
    BY <2>1, <2>3, SMT
<1>11. /\ w3 = f3 + 16 * w4
      /\ w2 = f2 + 4 * w3
      /\ w1 = f1 + 2 * w2
      /\ w0 = f0 + 2 * w1
  BY <1>1, <1>2, <1>3, <1>4, <1>6, <1>7, <1>8, <1>9 DEF Above
<1>12. inst_ciwtype_read(d).imm =
        Field(d, 5, 1, 3) + Field(d, 6, 1, 2) + Field(d, 7, 4, 6) + Field(d, 11, 2, 4)
  BY ClearedRead, Zenon DEF inst_ciwtype_read, ShortRead, Read, Fits, Keys
<1>13. inst_ciwtype_read(d).imm = f1 * 8 + f0 * 4 + f3 * 64 + f2 * 16
  BY <1>1, <1>2, <1>3, <1>4, <1>12 DEF Field
<1>14. /\ inst_ciwtype_read(d).imm = v
      /\ 0 <= v /\ v < 1024
  <2>1. /\ w0 = f0 + 2 * w1
        /\ w1 = f1 + 2 * w2
        /\ w2 = f2 + 4 * w3
        /\ w3 = f3 + 16 * w4
        /\ w4 = 0
        /\ v = 4 * w0
        /\ f0 < 2^1
        /\ f1 < 2^1
        /\ f2 < 2^2
        /\ f3 < 2^4
    BY <1>1, <1>2, <1>3, <1>4, <1>5, <1>10, <1>11
  <2>2. QED
    BY <1>13, <2>1, SMT
<1>15. Inverse(at, row, 9)
  BY DEF Inverse, Row32, x
<1>16. \A k \in 0 .. 9 : at[k + 1] =
        IF k < 2 THEN 0 ELSE IF k < 3 THEN 7 ELSE IF k < 4 THEN 8 ELSE IF k < 6 THEN 6 - k
        ELSE 12 - k
  OBVIOUS
<1> HIDE DEF at, row
<1>17. \A k \in 0 .. 31 : RowBit(d, 12, row, 0, k) =
        IF k < 2 THEN 0 ELSE IF k < 3 THEN Bits(d, 6, 1) ELSE IF k < 4 THEN Bits(d, 5, 1)
        ELSE IF k < 6 THEN Bits(d, k + 7, 1) ELSE IF k < 10 THEN Bits(d, k + 1, 1) ELSE 0
  <2>1. 9 \in 0 .. 31 /\ 0 \in {0, 31}
    OBVIOUS
  <2>2. \A k \in 0 .. 31 : RowBit(d, 12, row, 0, k) = AtBit(at, 9, d, 12, 0, k)
    BY <1>15, <2>1, RowAsDrawn, SMT
  <2>3. QED
    BY <1>16, <2>2 DEF AtBit
<1>18. \A k \in 0 .. 31 : Digit(v, k) =
        IF k < 2 THEN 0 ELSE IF k < 3 THEN Bits(d, 6, 1) ELSE IF k < 4 THEN Bits(d, 5, 1)
        ELSE IF k < 6 THEN Bits(d, k + 7, 1) ELSE IF k < 10 THEN Bits(d, k + 1, 1) ELSE 0
  BY <1>5, <1>6, <1>7, <1>8, <1>9, <1>10
<1>19. QED
  <2>1. v \in Signed32
    BY <1>10, <1>14, SMT DEF Signed32
  <2>2. \A k \in 0 .. 31 : Digit(v, k) = RowBit(d, 12, row, 0, k)
    BY <1>18, <1>17, Zenon
  <2>3. QED
    BY <1>14, <2>1, <2>2, SMT DEF Draws, row

\* Of c.lw and c.sw.
LEMMA DrawnCLw ==
  ASSUME NEW d \in Half \X Half
  PROVE  /\ Draws(inst_cltype_read(d).imm, d, 12, <<5, 4, 3, x, x, x, 2, 6, x, x, x>>, 0)
         /\ Draws(inst_cstype_read2(d).imm, d, 12, <<5, 4, 3, x, x, x, 2, 6, x, x, x>>, 0)
<1> DEFINE row == <<5, 4, 3, x, x, x, 2, 6, x, x, x>>
           at == <<0, 0, 7, 3, 2, 1, 8>>
<1>1. PICK f0 \in Nat : f0 = Bits(d, 6, 1) /\ f0 < 2^1
  BY FieldSizes
<1>2. PICK f1 \in Nat : f1 = Bits(d, 10, 3) /\ f1 < 2^3
  BY FieldSizes
<1>3. PICK f2 \in Nat : f2 = Bits(d, 5, 1) /\ f2 < 2^1
  BY FieldSizes
<1>4. PICK w3 \in Int : w3 = 0 /\ \A k \in 0 .. 31 : Digit(w3, k) = 0
  BY ZeroDigits
<1>5. PICK w2 \in Int :
        /\ w2 = Above(d, 5, 1, w3)
        /\ \A k \in 0 .. 31 : Digit(w2, k) =
             IF k < 1 THEN Bits(d, 5 + k, 1) ELSE Digit(w3, k - 1)
  <2>1. 1 \in 1 .. 32 /\ 5 \in 0 .. 31 /\ 5 + 1 <= 32 /\ w3 \in Int
    BY <1>4
  <2>2. /\ Above(d, 5, 1, w3) \in Int
        /\ \A k \in 0 .. 31 : Digit(Above(d, 5, 1, w3), k) =
             IF k < 1 THEN Bits(d, 5 + k, 1) ELSE Digit(w3, k - 1)
    BY <2>1, AboveBits, Zenon
  <2>3. QED
    BY <2>2, Zenon
<1>6. PICK w1 \in Int :
        /\ w1 = Above(d, 10, 3, w2)
        /\ \A k \in 0 .. 31 : Digit(w1, k) =
             IF k < 3 THEN Bits(d, 10 + k, 1) ELSE Digit(w2, k - 3)
  <2>1. 3 \in 1 .. 32 /\ 10 \in 0 .. 31 /\ 10 + 3 <= 32 /\ w2 \in Int
    BY <1>5
  <2>2. /\ Above(d, 10, 3, w2) \in Int
        /\ \A k \in 0 .. 31 : Digit(Above(d, 10, 3, w2), k) =
             IF k < 3 THEN Bits(d, 10 + k, 1) ELSE Digit(w2, k - 3)
    BY <2>1, AboveBits, ZenonT(60)
  <2>3. QED
    BY <2>2, Zenon
<1>7. PICK w0 \in Int :
        /\ w0 = Above(d, 6, 1, w1)
        /\ \A k \in 0 .. 31 : Digit(w0, k) =
             IF k < 1 THEN Bits(d, 6 + k, 1) ELSE Digit(w1, k - 1)
  <2>1. 1 \in 1 .. 32 /\ 6 \in 0 .. 31 /\ 6 + 1 <= 32 /\ w1 \in Int
    BY <1>6
  <2>2. /\ Above(d, 6, 1, w1) \in Int
        /\ \A k \in 0 .. 31 : Digit(Above(d, 6, 1, w1), k) =
             IF k < 1 THEN Bits(d, 6 + k, 1) ELSE Digit(w1, k - 1)
    BY <2>1, AboveBits, ZenonT(60)
  <2>3. QED
    BY <2>2, Zenon
<1>8. PICK v \in Int :
        /\ v = 4 * w0
        /\ \A k \in 0 .. 31 : Digit(v, k) = IF k < 2 THEN 0 ELSE Digit(w0, k - 2)
  <2>1. PICK p \in Int : p = 2^2
    BY SMT
  <2>2. 2 \in 1 .. 31 /\ w0 \in Int
    BY <1>7
  <2>3. /\ p * w0 \in Int
        /\ \A k \in 0 .. 31 : Digit(p * w0, k) = IF k < 2 THEN 0 ELSE Digit(w0, k - 2)
    BY <2>1, <2>2, Zeros, ZenonT(60)
  <2>4. QED
    BY <2>1, <2>3, SMT
<1>9. /\ w2 = f2 + 2 * w3
      /\ w1 = f1 + 8 * w2
      /\ w0 = f0 + 2 * w1
  BY <1>1, <1>2, <1>3, <1>5, <1>6, <1>7 DEF Above
<1>10. /\ inst_cltype_read(d).imm =
        Field(d, 5, 1, 6) + Field(d, 6, 1, 2) + Field(d, 10, 3, 3)
      /\ inst_cstype_read2(d).imm =
        Field(d, 5, 1, 6) + Field(d, 6, 1, 2) + Field(d, 10, 3, 3)
  BY ClearedRead, Zenon
     DEF inst_cltype_read, inst_cstype_read2, Imm6_2_53, ShortRead, Read, Fits, Keys
<1>11. /\ inst_cltype_read(d).imm = f2 * 64 + f0 * 4 + f1 * 8
      /\ inst_cstype_read2(d).imm = f2 * 64 + f0 * 4 + f1 * 8
  BY <1>1, <1>2, <1>3, <1>10 DEF Field
<1>12. /\ inst_cltype_read(d).imm = v
      /\ inst_cstype_read2(d).imm = v
      /\ 0 <= v /\ v < 128
  <2>1. /\ w0 = f0 + 2 * w1
        /\ w1 = f1 + 8 * w2
        /\ w2 = f2 + 2 * w3
        /\ w3 = 0
        /\ v = 4 * w0
        /\ f0 < 2^1
        /\ f1 < 2^3
        /\ f2 < 2^1
    BY <1>1, <1>2, <1>3, <1>4, <1>8, <1>9
  <2>2. QED
    BY <1>11, <2>1, SMT
<1>13. Inverse(at, row, 6)
  BY DEF Inverse, Row32, x
<1>14. \A k \in 0 .. 6 : at[k + 1] =
        IF k < 2 THEN 0 ELSE IF k < 3 THEN 7 ELSE IF k < 6 THEN 6 - k ELSE 8
  OBVIOUS
<1> HIDE DEF at, row
<1>15. \A k \in 0 .. 31 : RowBit(d, 12, row, 0, k) =
        IF k < 2 THEN 0 ELSE IF k < 3 THEN Bits(d, 6, 1) ELSE IF k < 6 THEN Bits(d, k + 7,
        1) ELSE IF k < 7 THEN Bits(d, k - 1, 1) ELSE 0
  <2>1. 6 \in 0 .. 31 /\ 0 \in {0, 31}
    OBVIOUS
  <2>2. \A k \in 0 .. 31 : RowBit(d, 12, row, 0, k) = AtBit(at, 6, d, 12, 0, k)
    BY <1>13, <2>1, RowAsDrawn, SMT
  <2>3. QED
    BY <1>14, <2>2 DEF AtBit
<1>16. \A k \in 0 .. 31 : Digit(v, k) =
        IF k < 2 THEN 0 ELSE IF k < 3 THEN Bits(d, 6, 1) ELSE IF k < 6 THEN Bits(d, k + 7,
        1) ELSE IF k < 7 THEN Bits(d, k - 1, 1) ELSE 0
  BY <1>4, <1>5, <1>6, <1>7, <1>8
<1>17. QED
  <2>1. v \in Signed32
    BY <1>8, <1>12, SMT DEF Signed32
  <2>2. \A k \in 0 .. 31 : Digit(v, k) = RowBit(d, 12, row, 0, k)
    BY <1>16, <1>15, Zenon
  <2>3. QED
    BY <1>12, <2>1, <2>2, SMT DEF Draws, row

\* Of c.ld, c.sd, c.fld and c.fsd.
LEMMA DrawnCLd ==
  ASSUME NEW d \in Half \X Half
  PROVE  /\ Draws(inst_cltype_read2(d).imm, d, 12, <<5, 4, 3, x, x, x, 7, 6, x, x, x>>, 0)
         /\ Draws(inst_cstype_read(d).imm, d, 12, <<5, 4, 3, x, x, x, 7, 6, x, x, x>>, 0)
<1> DEFINE row == <<5, 4, 3, x, x, x, 7, 6, x, x, x>>
           at == <<0, 0, 0, 3, 2, 1, 8, 7>>
<1>1. PICK f0 \in Nat : f0 = Bits(d, 10, 3) /\ f0 < 2^3
  BY FieldSizes
<1>2. PICK f1 \in Nat : f1 = Bits(d, 5, 2) /\ f1 < 2^2
  BY FieldSizes
<1>3. PICK w2 \in Int : w2 = 0 /\ \A k \in 0 .. 31 : Digit(w2, k) = 0
  BY ZeroDigits
<1>4. PICK w1 \in Int :
        /\ w1 = Above(d, 5, 2, w2)
        /\ \A k \in 0 .. 31 : Digit(w1, k) =
             IF k < 2 THEN Bits(d, 5 + k, 1) ELSE Digit(w2, k - 2)
  <2>1. 2 \in 1 .. 32 /\ 5 \in 0 .. 31 /\ 5 + 2 <= 32 /\ w2 \in Int
    BY <1>3
  <2>2. /\ Above(d, 5, 2, w2) \in Int
        /\ \A k \in 0 .. 31 : Digit(Above(d, 5, 2, w2), k) =
             IF k < 2 THEN Bits(d, 5 + k, 1) ELSE Digit(w2, k - 2)
    BY <2>1, AboveBits, ZenonT(60)
  <2>3. QED
    BY <2>2, Zenon
<1>5. PICK w0 \in Int :
        /\ w0 = Above(d, 10, 3, w1)
        /\ \A k \in 0 .. 31 : Digit(w0, k) =
             IF k < 3 THEN Bits(d, 10 + k, 1) ELSE Digit(w1, k - 3)
  <2>1. 3 \in 1 .. 32 /\ 10 \in 0 .. 31 /\ 10 + 3 <= 32 /\ w1 \in Int
    BY <1>4
  <2>2. /\ Above(d, 10, 3, w1) \in Int
        /\ \A k \in 0 .. 31 : Digit(Above(d, 10, 3, w1), k) =
             IF k < 3 THEN Bits(d, 10 + k, 1) ELSE Digit(w1, k - 3)
    BY <2>1, AboveBits, ZenonT(60)
  <2>3. QED
    BY <2>2, Zenon
<1>6. PICK v \in Int :
        /\ v = 8 * w0
        /\ \A k \in 0 .. 31 : Digit(v, k) = IF k < 3 THEN 0 ELSE Digit(w0, k - 3)
  <2>1. PICK p \in Int : p = 2^3
    BY SMT
  <2>2. 3 \in 1 .. 31 /\ w0 \in Int
    BY <1>5
  <2>3. /\ p * w0 \in Int
        /\ \A k \in 0 .. 31 : Digit(p * w0, k) = IF k < 3 THEN 0 ELSE Digit(w0, k - 3)
    BY <2>1, <2>2, Zeros, ZenonT(60)
  <2>4. QED
    BY <2>1, <2>3, SMT
<1>7. /\ w1 = f1 + 4 * w2
      /\ w0 = f0 + 8 * w1
  BY <1>1, <1>2, <1>4, <1>5 DEF Above
<1>8. /\ inst_cltype_read2(d).imm =
        Field(d, 5, 2, 6) + Field(d, 10, 3, 3)
      /\ inst_cstype_read(d).imm =
        Field(d, 5, 2, 6) + Field(d, 10, 3, 3)
  BY ClearedRead, Zenon
     DEF inst_cltype_read2, inst_cstype_read, Imm76_53, ShortRead, Read, Fits, Keys
<1>9. /\ inst_cltype_read2(d).imm = f1 * 64 + f0 * 8
      /\ inst_cstype_read(d).imm = f1 * 64 + f0 * 8
  BY <1>1, <1>2, <1>8 DEF Field
<1>10. /\ inst_cltype_read2(d).imm = v
      /\ inst_cstype_read(d).imm = v
      /\ 0 <= v /\ v < 256
  <2>1. /\ w0 = f0 + 8 * w1
        /\ w1 = f1 + 4 * w2
        /\ w2 = 0
        /\ v = 8 * w0
        /\ f0 < 2^3
        /\ f1 < 2^2
    BY <1>1, <1>2, <1>3, <1>6, <1>7
  <2>2. QED
    BY <1>9, <2>1, SMT
<1>11. Inverse(at, row, 7)
  BY DEF Inverse, Row32, x
<1>12. \A k \in 0 .. 7 : at[k + 1] =
        IF k < 3 THEN 0 ELSE IF k < 6 THEN 6 - k ELSE 14 - k
  OBVIOUS
<1> HIDE DEF at, row
<1>13. \A k \in 0 .. 31 : RowBit(d, 12, row, 0, k) =
        IF k < 3 THEN 0 ELSE IF k < 6 THEN Bits(d, k + 7, 1) ELSE IF k < 8 THEN Bits(d, k -
        1, 1) ELSE 0
  <2>1. 7 \in 0 .. 31 /\ 0 \in {0, 31}
    OBVIOUS
  <2>2. \A k \in 0 .. 31 : RowBit(d, 12, row, 0, k) = AtBit(at, 7, d, 12, 0, k)
    BY <1>11, <2>1, RowAsDrawn, SMT
  <2>3. QED
    BY <1>12, <2>2 DEF AtBit
<1>14. \A k \in 0 .. 31 : Digit(v, k) =
        IF k < 3 THEN 0 ELSE IF k < 6 THEN Bits(d, k + 7, 1) ELSE IF k < 8 THEN Bits(d, k -
        1, 1) ELSE 0
  BY <1>3, <1>4, <1>5, <1>6
<1>15. QED
  <2>1. v \in Signed32
    BY <1>6, <1>10, SMT DEF Signed32
  <2>2. \A k \in 0 .. 31 : Digit(v, k) = RowBit(d, 12, row, 0, k)
    BY <1>14, <1>13, Zenon
  <2>3. QED
    BY <1>10, <2>1, <2>2, SMT DEF Draws, row

\* Of c.ldsp and c.fldsp.
LEMMA DrawnCLdsp ==
  ASSUME NEW d \in Half \X Half
  PROVE  Draws(inst_citype_read2(d).imm, d, 12, <<5, x, x, x, x, x, 4, 3, 8, 7, 6>>, 0)
<1> DEFINE row == <<5, x, x, x, x, x, 4, 3, 8, 7, 6>>
           at == <<0, 0, 0, 8, 7, 1, 11, 10, 9>>
<1>1. PICK f0 \in Nat : f0 = Bits(d, 5, 2) /\ f0 < 2^2
  BY FieldSizes
<1>2. PICK f1 \in Nat : f1 = Bits(d, 12, 1) /\ f1 < 2^1
  BY FieldSizes
<1>3. PICK f2 \in Nat : f2 = Bits(d, 2, 3) /\ f2 < 2^3
  BY FieldSizes
<1>4. PICK w3 \in Int : w3 = 0 /\ \A k \in 0 .. 31 : Digit(w3, k) = 0
  BY ZeroDigits
<1>5. PICK w2 \in Int :
        /\ w2 = Above(d, 2, 3, w3)
        /\ \A k \in 0 .. 31 : Digit(w2, k) =
             IF k < 3 THEN Bits(d, 2 + k, 1) ELSE Digit(w3, k - 3)
  <2>1. 3 \in 1 .. 32 /\ 2 \in 0 .. 31 /\ 2 + 3 <= 32 /\ w3 \in Int
    BY <1>4
  <2>2. /\ Above(d, 2, 3, w3) \in Int
        /\ \A k \in 0 .. 31 : Digit(Above(d, 2, 3, w3), k) =
             IF k < 3 THEN Bits(d, 2 + k, 1) ELSE Digit(w3, k - 3)
    BY <2>1, AboveBits, ZenonT(60)
  <2>3. QED
    BY <2>2, Zenon
<1>6. PICK w1 \in Int :
        /\ w1 = Above(d, 12, 1, w2)
        /\ \A k \in 0 .. 31 : Digit(w1, k) =
             IF k < 1 THEN Bits(d, 12 + k, 1) ELSE Digit(w2, k - 1)
  <2>1. 1 \in 1 .. 32 /\ 12 \in 0 .. 31 /\ 12 + 1 <= 32 /\ w2 \in Int
    BY <1>5
  <2>2. /\ Above(d, 12, 1, w2) \in Int
        /\ \A k \in 0 .. 31 : Digit(Above(d, 12, 1, w2), k) =
             IF k < 1 THEN Bits(d, 12 + k, 1) ELSE Digit(w2, k - 1)
    BY <2>1, AboveBits, ZenonT(60)
  <2>3. QED
    BY <2>2, Zenon
<1>7. PICK w0 \in Int :
        /\ w0 = Above(d, 5, 2, w1)
        /\ \A k \in 0 .. 31 : Digit(w0, k) =
             IF k < 2 THEN Bits(d, 5 + k, 1) ELSE Digit(w1, k - 2)
  <2>1. 2 \in 1 .. 32 /\ 5 \in 0 .. 31 /\ 5 + 2 <= 32 /\ w1 \in Int
    BY <1>6
  <2>2. /\ Above(d, 5, 2, w1) \in Int
        /\ \A k \in 0 .. 31 : Digit(Above(d, 5, 2, w1), k) =
             IF k < 2 THEN Bits(d, 5 + k, 1) ELSE Digit(w1, k - 2)
    BY <2>1, AboveBits, ZenonT(60)
  <2>3. QED
    BY <2>2, Zenon
<1>8. PICK v \in Int :
        /\ v = 8 * w0
        /\ \A k \in 0 .. 31 : Digit(v, k) = IF k < 3 THEN 0 ELSE Digit(w0, k - 3)
  <2>1. PICK p \in Int : p = 2^3
    BY SMT
  <2>2. 3 \in 1 .. 31 /\ w0 \in Int
    BY <1>7
  <2>3. /\ p * w0 \in Int
        /\ \A k \in 0 .. 31 : Digit(p * w0, k) = IF k < 3 THEN 0 ELSE Digit(w0, k - 3)
    BY <2>1, <2>2, Zeros, ZenonT(60)
  <2>4. QED
    BY <2>1, <2>3, SMT
<1>9. /\ w2 = f2 + 8 * w3
      /\ w1 = f1 + 2 * w2
      /\ w0 = f0 + 4 * w1
  BY <1>1, <1>2, <1>3, <1>5, <1>6, <1>7 DEF Above
<1>10. inst_citype_read2(d).imm =
        Field(d, 2, 3, 6) + Field(d, 5, 2, 3) + Field(d, 12, 1, 5)
  BY ClearedRead, Zenon DEF inst_citype_read2, ShortRead, Read, Fits, Keys
<1>11. inst_citype_read2(d).imm = f2 * 64 + f0 * 8 + f1 * 32
  BY <1>1, <1>2, <1>3, <1>10 DEF Field
<1>12. /\ inst_citype_read2(d).imm = v
      /\ 0 <= v /\ v < 512
  <2>1. /\ w0 = f0 + 4 * w1
        /\ w1 = f1 + 2 * w2
        /\ w2 = f2 + 8 * w3
        /\ w3 = 0
        /\ v = 8 * w0
        /\ f0 < 2^2
        /\ f1 < 2^1
        /\ f2 < 2^3
    BY <1>1, <1>2, <1>3, <1>4, <1>8, <1>9
  <2>2. QED
    BY <1>11, <2>1, SMT
<1>13. Inverse(at, row, 8)
  BY DEF Inverse, Row32, x
<1>14. \A k \in 0 .. 8 : at[k + 1] =
        IF k < 3 THEN 0 ELSE IF k < 5 THEN 11 - k ELSE IF k < 6 THEN 1 ELSE 17 - k
  OBVIOUS
<1> HIDE DEF at, row
<1>15. \A k \in 0 .. 31 : RowBit(d, 12, row, 0, k) =
        IF k < 3 THEN 0 ELSE IF k < 5 THEN Bits(d, k + 2, 1) ELSE IF k < 6 THEN Bits(d, 12,
        1) ELSE IF k < 9 THEN Bits(d, k - 4, 1) ELSE 0
  <2>1. 8 \in 0 .. 31 /\ 0 \in {0, 31}
    OBVIOUS
  <2>2. \A k \in 0 .. 31 : RowBit(d, 12, row, 0, k) = AtBit(at, 8, d, 12, 0, k)
    BY <1>13, <2>1, RowAsDrawn, SMT
  <2>3. QED
    BY <1>14, <2>2 DEF AtBit
<1>16. \A k \in 0 .. 31 : Digit(v, k) =
        IF k < 3 THEN 0 ELSE IF k < 5 THEN Bits(d, k + 2, 1) ELSE IF k < 6 THEN Bits(d, 12,
        1) ELSE IF k < 9 THEN Bits(d, k - 4, 1) ELSE 0
  BY <1>4, <1>5, <1>6, <1>7, <1>8
<1>17. QED
  <2>1. v \in Signed32
    BY <1>8, <1>12, SMT DEF Signed32
  <2>2. \A k \in 0 .. 31 : Digit(v, k) = RowBit(d, 12, row, 0, k)
    BY <1>16, <1>15, Zenon
  <2>3. QED
    BY <1>12, <2>1, <2>2, SMT DEF Draws, row

\* Of c.lwsp.
LEMMA DrawnCLwsp ==
  ASSUME NEW d \in Half \X Half
  PROVE  Draws(inst_citype_read4(d).imm, d, 12, <<5, x, x, x, x, x, 4, 3, 2, 7, 6>>, 0)
<1> DEFINE row == <<5, x, x, x, x, x, 4, 3, 2, 7, 6>>
           at == <<0, 0, 9, 8, 7, 1, 11, 10>>
<1>1. PICK f0 \in Nat : f0 = Bits(d, 4, 3) /\ f0 < 2^3
  BY FieldSizes
<1>2. PICK f1 \in Nat : f1 = Bits(d, 12, 1) /\ f1 < 2^1
  BY FieldSizes
<1>3. PICK f2 \in Nat : f2 = Bits(d, 2, 2) /\ f2 < 2^2
  BY FieldSizes
<1>4. PICK w3 \in Int : w3 = 0 /\ \A k \in 0 .. 31 : Digit(w3, k) = 0
  BY ZeroDigits
<1>5. PICK w2 \in Int :
        /\ w2 = Above(d, 2, 2, w3)
        /\ \A k \in 0 .. 31 : Digit(w2, k) =
             IF k < 2 THEN Bits(d, 2 + k, 1) ELSE Digit(w3, k - 2)
  <2>1. 2 \in 1 .. 32 /\ 2 \in 0 .. 31 /\ 2 + 2 <= 32 /\ w3 \in Int
    BY <1>4
  <2>2. /\ Above(d, 2, 2, w3) \in Int
        /\ \A k \in 0 .. 31 : Digit(Above(d, 2, 2, w3), k) =
             IF k < 2 THEN Bits(d, 2 + k, 1) ELSE Digit(w3, k - 2)
    BY <2>1, AboveBits, ZenonT(60)
  <2>3. QED
    BY <2>2, Zenon
<1>6. PICK w1 \in Int :
        /\ w1 = Above(d, 12, 1, w2)
        /\ \A k \in 0 .. 31 : Digit(w1, k) =
             IF k < 1 THEN Bits(d, 12 + k, 1) ELSE Digit(w2, k - 1)
  <2>1. 1 \in 1 .. 32 /\ 12 \in 0 .. 31 /\ 12 + 1 <= 32 /\ w2 \in Int
    BY <1>5
  <2>2. /\ Above(d, 12, 1, w2) \in Int
        /\ \A k \in 0 .. 31 : Digit(Above(d, 12, 1, w2), k) =
             IF k < 1 THEN Bits(d, 12 + k, 1) ELSE Digit(w2, k - 1)
    BY <2>1, AboveBits, Zenon
  <2>3. QED
    BY <2>2, Zenon
<1>7. PICK w0 \in Int :
        /\ w0 = Above(d, 4, 3, w1)
        /\ \A k \in 0 .. 31 : Digit(w0, k) =
             IF k < 3 THEN Bits(d, 4 + k, 1) ELSE Digit(w1, k - 3)
  <2>1. 3 \in 1 .. 32 /\ 4 \in 0 .. 31 /\ 4 + 3 <= 32 /\ w1 \in Int
    BY <1>6
  <2>2. /\ Above(d, 4, 3, w1) \in Int
        /\ \A k \in 0 .. 31 : Digit(Above(d, 4, 3, w1), k) =
             IF k < 3 THEN Bits(d, 4 + k, 1) ELSE Digit(w1, k - 3)
    BY <2>1, AboveBits, ZenonT(60)
  <2>3. QED
    BY <2>2, Zenon
<1>8. PICK v \in Int :
        /\ v = 4 * w0
        /\ \A k \in 0 .. 31 : Digit(v, k) = IF k < 2 THEN 0 ELSE Digit(w0, k - 2)
  <2>1. PICK p \in Int : p = 2^2
    BY SMT
  <2>2. 2 \in 1 .. 31 /\ w0 \in Int
    BY <1>7
  <2>3. /\ p * w0 \in Int
        /\ \A k \in 0 .. 31 : Digit(p * w0, k) = IF k < 2 THEN 0 ELSE Digit(w0, k - 2)
    BY <2>1, <2>2, Zeros, Zenon
  <2>4. QED
    BY <2>1, <2>3, SMT
<1>9. /\ w2 = f2 + 4 * w3
      /\ w1 = f1 + 2 * w2
      /\ w0 = f0 + 8 * w1
  BY <1>1, <1>2, <1>3, <1>5, <1>6, <1>7 DEF Above
<1>10. inst_citype_read4(d).imm =
        Field(d, 12, 1, 5) + Field(d, 4, 3, 2) + Field(d, 2, 2, 6)
  BY ClearedRead, Zenon DEF inst_citype_read4, ShortRead, Read, Fits, Keys
<1>11. inst_citype_read4(d).imm = f1 * 32 + f0 * 4 + f2 * 64
  BY <1>1, <1>2, <1>3, <1>10 DEF Field
<1>12. /\ inst_citype_read4(d).imm = v
      /\ 0 <= v /\ v < 256
  <2>1. /\ w0 = f0 + 8 * w1
        /\ w1 = f1 + 2 * w2
        /\ w2 = f2 + 4 * w3
        /\ w3 = 0
        /\ v = 4 * w0
        /\ f0 < 2^3
        /\ f1 < 2^1
        /\ f2 < 2^2
    BY <1>1, <1>2, <1>3, <1>4, <1>8, <1>9
  <2>2. QED
    BY <1>11, <2>1, SMT
<1>13. Inverse(at, row, 7)
  BY DEF Inverse, Row32, x
<1>14. \A k \in 0 .. 7 : at[k + 1] =
        IF k < 2 THEN 0 ELSE IF k < 5 THEN 11 - k ELSE IF k < 6 THEN 1 ELSE 17 - k
  OBVIOUS
<1> HIDE DEF at, row
<1>15. \A k \in 0 .. 31 : RowBit(d, 12, row, 0, k) =
        IF k < 2 THEN 0 ELSE IF k < 5 THEN Bits(d, k + 2, 1) ELSE IF k < 6 THEN Bits(d, 12,
        1) ELSE IF k < 8 THEN Bits(d, k - 4, 1) ELSE 0
  <2>1. 7 \in 0 .. 31 /\ 0 \in {0, 31}
    OBVIOUS
  <2>2. \A k \in 0 .. 31 : RowBit(d, 12, row, 0, k) = AtBit(at, 7, d, 12, 0, k)
    BY <1>13, <2>1, RowAsDrawn, SMT
  <2>3. QED
    BY <1>14, <2>2 DEF AtBit
<1>16. \A k \in 0 .. 31 : Digit(v, k) =
        IF k < 2 THEN 0 ELSE IF k < 5 THEN Bits(d, k + 2, 1) ELSE IF k < 6 THEN Bits(d, 12,
        1) ELSE IF k < 8 THEN Bits(d, k - 4, 1) ELSE 0
  BY <1>4, <1>5, <1>6, <1>7, <1>8
<1>17. QED
  <2>1. v \in Signed32
    BY <1>8, <1>12, SMT DEF Signed32
  <2>2. \A k \in 0 .. 31 : Digit(v, k) = RowBit(d, 12, row, 0, k)
    BY <1>16, <1>15, Zenon
  <2>3. QED
    BY <1>12, <2>1, <2>2, SMT DEF Draws, row

\* Of c.sdsp and c.fsdsp.
LEMMA DrawnCSdsp ==
  ASSUME NEW d \in Half \X Half
  PROVE  Draws(inst_csstype_read(d).imm, d, 12, <<5, 4, 3, 8, 7, 6, x, x, x, x, x>>, 0)
<1> DEFINE row == <<5, 4, 3, 8, 7, 6, x, x, x, x, x>>
           at == <<0, 0, 0, 3, 2, 1, 6, 5, 4>>
<1>1. PICK f0 \in Nat : f0 = Bits(d, 10, 3) /\ f0 < 2^3
  BY FieldSizes
<1>2. PICK f1 \in Nat : f1 = Bits(d, 7, 3) /\ f1 < 2^3
  BY FieldSizes
<1>3. PICK w2 \in Int : w2 = 0 /\ \A k \in 0 .. 31 : Digit(w2, k) = 0
  BY ZeroDigits
<1>4. PICK w1 \in Int :
        /\ w1 = Above(d, 7, 3, w2)
        /\ \A k \in 0 .. 31 : Digit(w1, k) =
             IF k < 3 THEN Bits(d, 7 + k, 1) ELSE Digit(w2, k - 3)
  <2>1. 3 \in 1 .. 32 /\ 7 \in 0 .. 31 /\ 7 + 3 <= 32 /\ w2 \in Int
    BY <1>3
  <2>2. /\ Above(d, 7, 3, w2) \in Int
        /\ \A k \in 0 .. 31 : Digit(Above(d, 7, 3, w2), k) =
             IF k < 3 THEN Bits(d, 7 + k, 1) ELSE Digit(w2, k - 3)
    BY <2>1, AboveBits, ZenonT(60)
  <2>3. QED
    BY <2>2, Zenon
<1>5. PICK w0 \in Int :
        /\ w0 = Above(d, 10, 3, w1)
        /\ \A k \in 0 .. 31 : Digit(w0, k) =
             IF k < 3 THEN Bits(d, 10 + k, 1) ELSE Digit(w1, k - 3)
  <2>1. 3 \in 1 .. 32 /\ 10 \in 0 .. 31 /\ 10 + 3 <= 32 /\ w1 \in Int
    BY <1>4
  <2>2. /\ Above(d, 10, 3, w1) \in Int
        /\ \A k \in 0 .. 31 : Digit(Above(d, 10, 3, w1), k) =
             IF k < 3 THEN Bits(d, 10 + k, 1) ELSE Digit(w1, k - 3)
    BY <2>1, AboveBits, Zenon
  <2>3. QED
    BY <2>2, Zenon
<1>6. PICK v \in Int :
        /\ v = 8 * w0
        /\ \A k \in 0 .. 31 : Digit(v, k) = IF k < 3 THEN 0 ELSE Digit(w0, k - 3)
  <2>1. PICK p \in Int : p = 2^3
    BY SMT
  <2>2. 3 \in 1 .. 31 /\ w0 \in Int
    BY <1>5
  <2>3. /\ p * w0 \in Int
        /\ \A k \in 0 .. 31 : Digit(p * w0, k) = IF k < 3 THEN 0 ELSE Digit(w0, k - 3)
    BY <2>1, <2>2, Zeros, Zenon
  <2>4. QED
    BY <2>1, <2>3, SMT
<1>7. /\ w1 = f1 + 8 * w2
      /\ w0 = f0 + 8 * w1
  BY <1>1, <1>2, <1>4, <1>5 DEF Above
<1>8. inst_csstype_read(d).imm =
        Field(d, 7, 3, 6) + Field(d, 10, 3, 3)
  BY ClearedRead, Zenon DEF inst_csstype_read, ShortRead, Read, Fits, Keys
<1>9. inst_csstype_read(d).imm = f1 * 64 + f0 * 8
  BY <1>1, <1>2, <1>8 DEF Field
<1>10. /\ inst_csstype_read(d).imm = v
      /\ 0 <= v /\ v < 512
  <2>1. /\ w0 = f0 + 8 * w1
        /\ w1 = f1 + 8 * w2
        /\ w2 = 0
        /\ v = 8 * w0
        /\ f0 < 2^3
        /\ f1 < 2^3
    BY <1>1, <1>2, <1>3, <1>6, <1>7
  <2>2. QED
    BY <1>9, <2>1, SMT
<1>11. Inverse(at, row, 8)
  BY DEF Inverse, Row32, x
<1>12. \A k \in 0 .. 8 : at[k + 1] =
        IF k < 3 THEN 0 ELSE IF k < 6 THEN 6 - k ELSE 12 - k
  OBVIOUS
<1> HIDE DEF at, row
<1>13. \A k \in 0 .. 31 : RowBit(d, 12, row, 0, k) =
        IF k < 3 THEN 0 ELSE IF k < 6 THEN Bits(d, k + 7, 1) ELSE IF k < 9 THEN Bits(d, k +
        1, 1) ELSE 0
  <2>1. 8 \in 0 .. 31 /\ 0 \in {0, 31}
    OBVIOUS
  <2>2. \A k \in 0 .. 31 : RowBit(d, 12, row, 0, k) = AtBit(at, 8, d, 12, 0, k)
    BY <1>11, <2>1, RowAsDrawn, SMT
  <2>3. QED
    BY <1>12, <2>2 DEF AtBit
<1>14. \A k \in 0 .. 31 : Digit(v, k) =
        IF k < 3 THEN 0 ELSE IF k < 6 THEN Bits(d, k + 7, 1) ELSE IF k < 9 THEN Bits(d, k +
        1, 1) ELSE 0
  BY <1>3, <1>4, <1>5, <1>6
<1>15. QED
  <2>1. v \in Signed32
    BY <1>6, <1>10, SMT DEF Signed32
  <2>2. \A k \in 0 .. 31 : Digit(v, k) = RowBit(d, 12, row, 0, k)
    BY <1>14, <1>13, Zenon
  <2>3. QED
    BY <1>10, <2>1, <2>2, SMT DEF Draws, row

\* Of c.swsp.
LEMMA DrawnCSwsp ==
  ASSUME NEW d \in Half \X Half
  PROVE  Draws(inst_csstype_read2(d).imm, d, 12, <<5, 4, 3, 2, 7, 6, x, x, x, x, x>>, 0)
<1> DEFINE row == <<5, 4, 3, 2, 7, 6, x, x, x, x, x>>
           at == <<0, 0, 4, 3, 2, 1, 6, 5>>
<1>1. PICK f0 \in Nat : f0 = Bits(d, 9, 4) /\ f0 < 2^4
  BY FieldSizes
<1>2. PICK f1 \in Nat : f1 = Bits(d, 7, 2) /\ f1 < 2^2
  BY FieldSizes
<1>3. PICK w2 \in Int : w2 = 0 /\ \A k \in 0 .. 31 : Digit(w2, k) = 0
  BY ZeroDigits
<1>4. PICK w1 \in Int :
        /\ w1 = Above(d, 7, 2, w2)
        /\ \A k \in 0 .. 31 : Digit(w1, k) =
             IF k < 2 THEN Bits(d, 7 + k, 1) ELSE Digit(w2, k - 2)
  <2>1. 2 \in 1 .. 32 /\ 7 \in 0 .. 31 /\ 7 + 2 <= 32 /\ w2 \in Int
    BY <1>3
  <2>2. /\ Above(d, 7, 2, w2) \in Int
        /\ \A k \in 0 .. 31 : Digit(Above(d, 7, 2, w2), k) =
             IF k < 2 THEN Bits(d, 7 + k, 1) ELSE Digit(w2, k - 2)
    BY <2>1, AboveBits, ZenonT(60)
  <2>3. QED
    BY <2>2, Zenon
<1>5. PICK w0 \in Int :
        /\ w0 = Above(d, 9, 4, w1)
        /\ \A k \in 0 .. 31 : Digit(w0, k) =
             IF k < 4 THEN Bits(d, 9 + k, 1) ELSE Digit(w1, k - 4)
  <2>1. 4 \in 1 .. 32 /\ 9 \in 0 .. 31 /\ 9 + 4 <= 32 /\ w1 \in Int
    BY <1>4
  <2>2. /\ Above(d, 9, 4, w1) \in Int
        /\ \A k \in 0 .. 31 : Digit(Above(d, 9, 4, w1), k) =
             IF k < 4 THEN Bits(d, 9 + k, 1) ELSE Digit(w1, k - 4)
    BY <2>1, AboveBits, ZenonT(60)
  <2>3. QED
    BY <2>2, Zenon
<1>6. PICK v \in Int :
        /\ v = 4 * w0
        /\ \A k \in 0 .. 31 : Digit(v, k) = IF k < 2 THEN 0 ELSE Digit(w0, k - 2)
  <2>1. PICK p \in Int : p = 2^2
    BY SMT
  <2>2. 2 \in 1 .. 31 /\ w0 \in Int
    BY <1>5
  <2>3. /\ p * w0 \in Int
        /\ \A k \in 0 .. 31 : Digit(p * w0, k) = IF k < 2 THEN 0 ELSE Digit(w0, k - 2)
    BY <2>1, <2>2, Zeros, ZenonT(60)
  <2>4. QED
    BY <2>1, <2>3, SMT
<1>7. /\ w1 = f1 + 4 * w2
      /\ w0 = f0 + 16 * w1
  BY <1>1, <1>2, <1>4, <1>5 DEF Above
<1>8. inst_csstype_read2(d).imm =
        Field(d, 7, 2, 6) + Field(d, 9, 4, 2)
  BY ClearedRead, Zenon DEF inst_csstype_read2, ShortRead, Read, Fits, Keys
<1>9. inst_csstype_read2(d).imm = f1 * 64 + f0 * 4
  BY <1>1, <1>2, <1>8 DEF Field
<1>10. /\ inst_csstype_read2(d).imm = v
      /\ 0 <= v /\ v < 256
  <2>1. /\ w0 = f0 + 16 * w1
        /\ w1 = f1 + 4 * w2
        /\ w2 = 0
        /\ v = 4 * w0
        /\ f0 < 2^4
        /\ f1 < 2^2
    BY <1>1, <1>2, <1>3, <1>6, <1>7
  <2>2. QED
    BY <1>9, <2>1, SMT
<1>11. Inverse(at, row, 7)
  BY DEF Inverse, Row32, x
<1>12. \A k \in 0 .. 7 : at[k + 1] =
        IF k < 2 THEN 0 ELSE IF k < 6 THEN 6 - k ELSE 12 - k
  OBVIOUS
<1> HIDE DEF at, row
<1>13. \A k \in 0 .. 31 : RowBit(d, 12, row, 0, k) =
        IF k < 2 THEN 0 ELSE IF k < 6 THEN Bits(d, k + 7, 1) ELSE IF k < 8 THEN Bits(d, k +
        1, 1) ELSE 0
  <2>1. 7 \in 0 .. 31 /\ 0 \in {0, 31}
    OBVIOUS
  <2>2. \A k \in 0 .. 31 : RowBit(d, 12, row, 0, k) = AtBit(at, 7, d, 12, 0, k)
    BY <1>11, <2>1, RowAsDrawn, SMT
  <2>3. QED
    BY <1>12, <2>2 DEF AtBit
<1>14. \A k \in 0 .. 31 : Digit(v, k) =
        IF k < 2 THEN 0 ELSE IF k < 6 THEN Bits(d, k + 7, 1) ELSE IF k < 8 THEN Bits(d, k +
        1, 1) ELSE 0
  BY <1>3, <1>4, <1>5, <1>6
<1>15. QED
  <2>1. v \in Signed32
    BY <1>6, <1>10, SMT DEF Signed32
  <2>2. \A k \in 0 .. 31 : Digit(v, k) = RowBit(d, 12, row, 0, k)
    BY <1>14, <1>13, Zenon
  <2>3. QED
    BY <1>10, <2>1, <2>2, SMT DEF Draws, row

-----------------------------------------------------------------------------
(* The immediates that decode_inst leaves in the struct.                   *)

\* The bits of a number of 32 bits.
LEMMA ImmDigit ==
  ASSUME NEW v \in Signed32, NEW k \in 0 .. 31
  PROVE  ImmBit(v, k) = Digit(v, k)
<1>1. CASE k < 31
  BY <1>1, Zenon DEF ImmBit, Digit
<1>2. CASE ~(k < 31)
  <2>1. k = 31 /\ 2^31 = 2147483648
    BY <1>2, SMT
  <2>2. v \in Int /\ -2147483648 <= v /\ v < 2147483648
    BY SMT DEF Signed32
  <2>3. Digit(v, 31) = IF v < 0 THEN 1 ELSE 0
    BY <2>1, <2>2, SMT DEF Digit
  <2>4. k = 31
    BY <2>1
  <2>5. QED
    BY <1>2, <2>3, <2>4, Zenon DEF ImmBit
<1>3. QED
  BY <1>1, <1>2

LEMMA DrawnBits ==
  ASSUME NEW v, NEW d, NEW top, NEW row, NEW reach, Draws(v, d, top, row, reach), NEW k \in 0 .. 31
  PROVE  ImmBit(v, k) = RowBit(d, top, row, reach, k)
BY ImmDigit, Zenon DEF Draws

\* An instruction without an immediate.
LEMMA BlankDraws ==
  ASSUME NEW n \in Nat \ {0}, NEW d, NEW top, NEW reach \in {0, 31}
  PROVE  Draws(0, d, top, Blank(n), reach)
<1>1. 0 \in Signed32
  BY SMT DEF Signed32
<1>2. QED
  BY <1>1, ZeroDigits, BlankRow, Zenon DEF Draws

\* What ImmediatesAsDrawn asks of one instruction, with the range of the immediate.
Right(i, d) ==
  /\ i.imm \in Signed32
  /\ \A k \in 0 .. (IF i.type \in Shifts THEN 5 ELSE 31) :
       ImmBit(i.imm, k) = IF i.rvc THEN RvcBit(d, k)
                          ELSE RowBit(d, 31, Row32[Format(i.type)], 31, k)

Shown(i, d) == i = Illegal \/ Right(i, d)

\* The immediate i of a short reader, and of a long one for the format f.
ShortOf(i, d) == ShortRead(i) /\ Draws(i.imm, d, 12, RvcRow(d), RvcReach(d))
LongOf(i, d, f) == LongRead(i) /\ Draws(i.imm, d, 31, Row32[f], 31)

LEMMA ShortRight ==
  ASSUME NEW i, NEW d, i.rvc = TRUE, Draws(i.imm, d, 12, RvcRow(d), RvcReach(d))
  PROVE  Right(i, d)
<1>1. \A k \in 0 .. (IF i.type \in Shifts THEN 5 ELSE 31) : k \in 0 .. 31
  OBVIOUS
<1>2. \A k \in 0 .. 31 : ImmBit(i.imm, k) = RvcBit(d, k)
  BY DrawnBits, SMT DEF RvcBit
<1>3. i.imm \in Signed32
  BY Zenon DEF Draws
<1>4. QED
  BY <1>1, <1>2, <1>3, Zenon DEF Right

LEMMA LongRight ==
  ASSUME NEW i, NEW d, i.rvc = FALSE, Draws(i.imm, d, 31, Row32[Format(i.type)], 31)
  PROVE  Right(i, d)
<1>1. \A k \in 0 .. (IF i.type \in Shifts THEN 5 ELSE 31) : k \in 0 .. 31
  OBVIOUS
<1>2. \A k \in 0 .. 31 : ImmBit(i.imm, k) = RowBit(d, 31, Row32[Format(i.type)], 31, k)
  BY DrawnBits, SMT
<1>3. i.imm \in Signed32
  BY Zenon DEF Draws
<1>4. QED
  BY <1>1, <1>2, <1>3, Zenon DEF Right

\* Setting the type and registers leaves the immediate as it is.
LEMMA KeepsRight ==
  ASSUME NEW i, NEW d, ShortOf(i, d), NEW t, NEW r, NEW s
  PROVE  /\ Right([i EXCEPT !.type = t], d)
         /\ Right([i EXCEPT !.type = t, !.rs1 = r], d)
         /\ Right([i EXCEPT !.type = t, !.rs2 = r], d)
         /\ Right([i EXCEPT !.type = t, !.rd = r], d)
         /\ Right([i EXCEPT !.type = t, !.rd = r, !.rs1 = s], d)
         /\ Right([i EXCEPT !.type = t, !.rd = r, !.continue_exec = TRUE], d)
         /\ Right([i EXCEPT !.type = t, !.continue_exec = TRUE, !.rd = r], d)
<1> DEFINE Kept(j) == j.rvc = TRUE /\ j.imm = i.imm
<1>1. DOMAIN i = Keys /\ i.rvc = TRUE /\ Draws(i.imm, d, 12, RvcRow(d), RvcReach(d))
  BY Zenon DEF ShortOf, ShortRead, Read, Fits
<1>2. \A j : Kept(j) => Right(j, d)
  BY <1>1, ShortRight, Zenon
<1>3. /\ Kept([i EXCEPT !.type = t])
      /\ Kept([i EXCEPT !.type = t, !.rs1 = r])
      /\ Kept([i EXCEPT !.type = t, !.rs2 = r])
      /\ Kept([i EXCEPT !.type = t, !.rd = r])
  BY <1>1, Zenon DEF Keys
<1>4. /\ Kept([i EXCEPT !.type = t, !.rd = r, !.rs1 = s])
      /\ Kept([i EXCEPT !.type = t, !.rd = r, !.continue_exec = TRUE])
      /\ Kept([i EXCEPT !.type = t, !.continue_exec = TRUE, !.rd = r])
  BY <1>1, Zenon DEF Keys
<1> HIDE DEF Kept
<1>5. QED
  BY <1>2, <1>3, <1>4, Zenon

\* A failed check ends the process.
LEMMA CheckedShown ==
  ASSUME NEW b \in BOOLEAN, NEW i, NEW d, Right(i, d)
  PROVE  Shown(Checked(b, i), d)
BY Zenon DEF Checked, Shown

\* The rows that the manual draws for the short instructions, by quadrant.
LEMMA Rows0 ==
  ASSUME NEW d \in Half \X Half, QUADRANT(d) = 0
  PROVE  /\ RvcReach(d) = 0
         /\ COPCODE(d) = 0 => RvcRow(d) = <<5, 4, 9, 8, 7, 6, 2, 3, x, x, x>>
         /\ COPCODE(d) \in {2, 6} => RvcRow(d) = <<5, 4, 3, x, x, x, 2, 6, x, x, x>>
         /\ COPCODE(d) \in {1, 3, 5, 7} => RvcRow(d) = <<5, 4, 3, x, x, x, 7, 6, x, x, x>>
<1>1. QUADRANT(d) # 1 /\ QUADRANT(d) # 2
  OBVIOUS
<1>2. /\ COPCODE(d) = 0 => COPCODE(d) \notin {2, 6} /\ COPCODE(d) \notin {1, 3, 5, 7}
      /\ COPCODE(d) \in {2, 6} => COPCODE(d) # 0 /\ COPCODE(d) \notin {1, 3, 5, 7}
      /\ COPCODE(d) \in {1, 3, 5, 7} => COPCODE(d) # 0 /\ COPCODE(d) \notin {2, 6}
  OBVIOUS
<1>3. RvcReach(d) = 0
  BY <1>1, Zenon DEF RvcReach
<1>4. QED
  BY <1>1, <1>2, <1>3, Zenon DEF RvcRow

LEMMA Rows1 ==
  ASSUME NEW d \in Half \X Half, QUADRANT(d) = 1
  PROVE  /\ RvcReach(d) = 31
         /\ COPCODE(d) \in {0, 1, 2} => RvcRow(d) = <<5, x, x, x, x, x, 4, 3, 2, 1, 0>>
         /\ COPCODE(d) = 3 /\ RC1(d) = 2 => RvcRow(d) = <<9, x, x, x, x, x, 4, 6, 8, 7, 5>>
         /\ COPCODE(d) = 3 /\ RC1(d) # 2 => RvcRow(d) = <<17, x, x, x, x, x, 16, 15, 14, 13, 12>>
         /\ COPCODE(d) = 4 /\ CFUNCT2HIGH(d) = 3 => RvcRow(d) = Blank(11)
         /\ COPCODE(d) = 4 /\ CFUNCT2HIGH(d) # 3 => RvcRow(d) = <<5, x, x, x, x, x, 4, 3, 2, 1, 0>>
         /\ COPCODE(d) = 5 => RvcRow(d) = <<11, 4, 9, 8, 10, 6, 7, 3, 2, 1, 5>>
         /\ COPCODE(d) \in {6, 7} => RvcRow(d) = <<8, 4, 3, x, x, x, 7, 6, 2, 1, 5>>
<1> DEFINE c == COPCODE(d)
<1>1. QUADRANT(d) # 0 /\ QUADRANT(d) # 2
  OBVIOUS
<1>2. /\ c \in {0, 1, 2} => c # 3 /\ c # 4 /\ c # 5 /\ c \notin {6, 7}
      /\ c = 3 => c # 4 /\ c # 5 /\ c \notin {6, 7}
      /\ c = 4 => c # 3 /\ c # 5 /\ c \notin {6, 7}
      /\ c = 5 => c # 3 /\ c # 4 /\ c \notin {6, 7}
      /\ c \in {6, 7} => c # 3 /\ c # 4 /\ c # 5
  OBVIOUS
<1>3. RvcReach(d) = 31
  BY Zenon DEF RvcReach
<1> DEFINE row == RvcRow(d)
<1>4. /\ c \in {0, 1, 2} => row = <<5, x, x, x, x, x, 4, 3, 2, 1, 0>>
      /\ c = 4 /\ CFUNCT2HIGH(d) # 3 => row = <<5, x, x, x, x, x, 4, 3, 2, 1, 0>>
      /\ c = 4 /\ CFUNCT2HIGH(d) = 3 => row = Blank(11)
  BY <1>1, <1>2, Zenon DEF RvcRow
<1>5. /\ c = 3 /\ RC1(d) = 2 => row = <<9, x, x, x, x, x, 4, 6, 8, 7, 5>>
      /\ c = 3 /\ RC1(d) # 2 => row = <<17, x, x, x, x, x, 16, 15, 14, 13, 12>>
  BY <1>1, <1>2, Zenon DEF RvcRow
<1>6. /\ c = 5 => row = <<11, 4, 9, 8, 10, 6, 7, 3, 2, 1, 5>>
      /\ c \in {6, 7} => row = <<8, 4, 3, x, x, x, 7, 6, 2, 1, 5>>
  BY <1>1, <1>2, Zenon DEF RvcRow
<1>7. QED
  BY <1>3, <1>4, <1>5, <1>6, Zenon

LEMMA Rows2 ==
  ASSUME NEW d \in Half \X Half, QUADRANT(d) = 2
  PROVE  /\ RvcReach(d) = 0
         /\ COPCODE(d) = 0 => RvcRow(d) = <<5, x, x, x, x, x, 4, 3, 2, 1, 0>>
         /\ COPCODE(d) \in {1, 3} => RvcRow(d) = <<5, x, x, x, x, x, 4, 3, 8, 7, 6>>
         /\ COPCODE(d) = 2 => RvcRow(d) = <<5, x, x, x, x, x, 4, 3, 2, 7, 6>>
         /\ COPCODE(d) = 4 => RvcRow(d) = Blank(11)
         /\ COPCODE(d) \in {5, 7} => RvcRow(d) = <<5, 4, 3, 8, 7, 6, x, x, x, x, x>>
         /\ COPCODE(d) = 6 => RvcRow(d) = <<5, 4, 3, 2, 7, 6, x, x, x, x, x>>
<1> DEFINE c == COPCODE(d)
           row == RvcRow(d)
<1>1. QUADRANT(d) # 0 /\ QUADRANT(d) # 1
  OBVIOUS
<1>2. /\ c = 0 => c \notin {1, 3} /\ c # 2 /\ c # 4 /\ c \notin {5, 7} /\ c # 6
      /\ c \in {1, 3} => c # 2 /\ c # 4 /\ c \notin {5, 7} /\ c # 6
      /\ c = 2 => c \notin {1, 3} /\ c # 4 /\ c \notin {5, 7} /\ c # 6
      /\ c = 4 => c \notin {1, 3} /\ c # 2 /\ c \notin {5, 7} /\ c # 6
      /\ c \in {5, 7} => c \notin {1, 3} /\ c # 2 /\ c # 4 /\ c # 6
      /\ c = 6 => c \notin {1, 3} /\ c # 2 /\ c # 4 /\ c \notin {5, 7}
  OBVIOUS
<1>3. RvcReach(d) = 0
  BY <1>1, Zenon DEF RvcReach
<1>4. /\ c = 0 => row = <<5, x, x, x, x, x, 4, 3, 2, 1, 0>>
      /\ c \in {1, 3} => row = <<5, x, x, x, x, x, 4, 3, 8, 7, 6>>
      /\ c = 2 => row = <<5, x, x, x, x, x, 4, 3, 2, 7, 6>>
  BY <1>1, <1>2, Zenon DEF RvcRow
<1>5. /\ c = 4 => row = Blank(11)
      /\ c \in {5, 7} => row = <<5, 4, 3, 8, 7, 6, x, x, x, x, x>>
      /\ c = 6 => row = <<5, 4, 3, 2, 7, 6, x, x, x, x, x>>
  BY <1>1, <1>2, Zenon DEF RvcRow
<1>6. QED
  BY <1>3, <1>4, <1>5, Zenon

LEMMA Arms ==
  ASSUME NEW d
  PROVE  Shown(Illegal, d) /\ \A i : Right(i, d) => Shown(i, d)
BY Zenon DEF Shown

LEMMA Quadrant0Shown ==
  ASSUME NEW d \in Half \X Half, QUADRANT(d) = 0
  PROVE  Shown(Quadrant0(d), d)
<1>1. \/ COPCODE(d) = 0 \/ COPCODE(d) = 1 \/ COPCODE(d) = 2 \/ COPCODE(d) = 3
      \/ COPCODE(d) = 4 \/ COPCODE(d) = 5 \/ COPCODE(d) = 6 \/ COPCODE(d) = 7
  BY Fields
<1>2. /\ COPCODE(d) = 0 => ShortOf(inst_ciwtype_read(d), d)
      /\ COPCODE(d) \in {1, 3} => ShortOf(inst_cltype_read2(d), d)
      /\ COPCODE(d) = 2 => ShortOf(inst_cltype_read(d), d)
      /\ COPCODE(d) \in {5, 7} => ShortOf(inst_cstype_read(d), d)
      /\ COPCODE(d) = 6 => ShortOf(inst_cstype_read2(d), d)
  BY Rows0, DrawnCIW, DrawnCLd, DrawnCLw, ReadersRvc DEF ShortOf
<1>3. COPCODE(d) = 0 =>
        Shown(Checked(inst_ciwtype_read(d).imm # 0,
                      [inst_ciwtype_read(d) EXCEPT !.type = "addi", !.rs1 = sp]), d)
  BY <1>2, KeepsRight, CheckedShown, ZenonT(60)
<1>4. /\ COPCODE(d) = 1 => Shown([inst_cltype_read2(d) EXCEPT !.type = "fld"], d)
      /\ COPCODE(d) = 2 => Shown([inst_cltype_read(d) EXCEPT !.type = "lw"], d)
      /\ COPCODE(d) = 3 => Shown([inst_cltype_read2(d) EXCEPT !.type = "ld"], d)
      /\ COPCODE(d) = 5 => Shown([inst_cstype_read(d) EXCEPT !.type = "fsd"], d)
      /\ COPCODE(d) = 6 => Shown([inst_cstype_read2(d) EXCEPT !.type = "sw"], d)
      /\ COPCODE(d) = 7 => Shown([inst_cstype_read(d) EXCEPT !.type = "sd"], d)
  BY <1>2, KeepsRight, Arms, Zenon
<1>5. QED
  BY <1>1, <1>3, <1>4, Arms, Zenon DEF Quadrant0

LEMMA CompressedAluShown ==
  ASSUME NEW d \in Half \X Half, QUADRANT(d) = 1, COPCODE(d) = 4
  PROVE  Shown(CompressedAlu(d), d)
<1>1. CASE CFUNCT2HIGH(d) < 3
  <2> DEFINE i == inst_cbtype_read2(d)
             t == Case(<<"srli", "srai", "andi">>, CFUNCT2HIGH(d))
  <2>1. CFUNCT2HIGH(d) # 3
    BY <1>1
  <2>2. ShortOf(i, d)
    BY <2>1, Rows1, DrawnCI, ReadersRvc DEF ShortOf
  <2>3. CompressedAlu(d) = [i EXCEPT !.type = t, !.rs1 = i.rd]
    BY <1>1, Zenon DEF CompressedAlu
  <2> HIDE DEF i, t
  <2>4. Right([i EXCEPT !.type = t, !.rs1 = i.rd], d)
    BY <2>2, KeepsRight, Zenon
  <2>5. QED
    BY <2>3, <2>4, Zenon DEF Shown
<1>2. CASE ~(CFUNCT2HIGH(d) < 3)
  <2> DEFINE i == inst_catype_read(d)
             t == IF CFUNCT1(d) = 0
                  THEN Case(<<"sub", "xor", "or", "and">>, CFUNCT2LOW(d))
                  ELSE Case(<<"subw", "addw">>, CFUNCT2LOW(d))
  <2>1. CFUNCT2HIGH(d) = 3
    BY <1>2, Fields
  <2>2. ShortOf(i, d)
    <3>1. i.imm = 0
      BY ClearedRead, Zenon DEF inst_catype_read, Compressed, Cleared, ShortRead, Read, Fits, Keys
    <3>2. Draws(0, d, 12, Blank(11), 31)
      BY BlankDraws
    <3>3. QED
      BY <2>1, <3>1, <3>2, Rows1, ReadersRvc DEF ShortOf
  <2>3. CompressedAlu(d) = Checked(t # "illegal", [i EXCEPT !.type = t, !.rs1 = i.rd])
    BY <1>2, Zenon DEF CompressedAlu
  <2>4. (t # "illegal") \in BOOLEAN
    BY Zenon
  <2> HIDE DEF i, t
  <2>5. Right([i EXCEPT !.type = t, !.rs1 = i.rd], d)
    BY <2>2, KeepsRight, Zenon
  <2>6. QED
    BY <2>3, <2>4, <2>5, CheckedShown, Zenon
<1>3. QED
  BY <1>1, <1>2

LEMMA Quadrant1Shown ==
  ASSUME NEW d \in Half \X Half, QUADRANT(d) = 1
  PROVE  Shown(Quadrant1(d), d)
<1> DEFINE ci == inst_citype_read(d)
           ci3 == inst_citype_read3(d)
           ci5 == inst_citype_read5(d)
           c == COPCODE(d)
<1>1. c = 0 \/ c = 1 \/ c = 2 \/ c = 3 \/ c = 4 \/ c = 5 \/ c \in {6, 7}
  BY Fields
<1>2. /\ c \in {0, 1, 2} => ShortOf(ci, d)
      /\ c = 3 /\ RC1(d) = 2 => ShortOf(ci3, d)
      /\ c = 3 /\ RC1(d) # 2 => ShortOf(ci5, d)
      /\ c = 5 => ShortOf(inst_cjtype_read(d), d)
      /\ c \in {6, 7} => ShortOf(inst_cbtype_read(d), d)
  BY Rows1, DrawnCI, DrawnCI16, DrawnCLui, DrawnCJ, DrawnCB, ReadersRvc DEF ShortOf
<1> HIDE DEF ci, ci3, ci5
<1>3. /\ c = 0 => Shown([ci EXCEPT !.type = "addi", !.rs1 = ci.rd], d)
      /\ c = 1 => Right([ci EXCEPT !.type = "addiw", !.rs1 = ci.rd], d)
      /\ c = 2 => Shown([ci EXCEPT !.type = "addi", !.rs1 = x0], d)
  BY <1>2, KeepsRight, Arms, Zenon
<1>4. /\ c = 3 /\ RC1(d) = 2 => Right([ci3 EXCEPT !.type = "addi", !.rs1 = ci3.rd], d)
      /\ c = 3 /\ RC1(d) # 2 => Right([ci5 EXCEPT !.type = "lui"], d)
  BY <1>2, KeepsRight, Zenon
<1>5. /\ c = 1 => Shown(Checked(ci.rd # 0, [ci EXCEPT !.type = "addiw", !.rs1 = ci.rd]), d)
      /\ c = 3 /\ RC1(d) = 2 =>
           Shown(Checked(ci3.imm # 0, [ci3 EXCEPT !.type = "addi", !.rs1 = ci3.rd]), d)
      /\ c = 3 /\ RC1(d) # 2 => Shown(Checked(ci5.imm # 0, [ci5 EXCEPT !.type = "lui"]), d)
  BY <1>3, <1>4, CheckedShown, Zenon
<1>6. /\ c = 5 => Shown([inst_cjtype_read(d) EXCEPT !.type = "jal", !.rd = x0,
                                                    !.continue_exec = TRUE], d)
      /\ c \in {6, 7} => Shown([inst_cbtype_read(d) EXCEPT
                                 !.type = IF c = 6 THEN "beq" ELSE "bne", !.rs2 = x0], d)
  BY <1>2, KeepsRight, Arms, Zenon
<1>7. QED
  BY <1>1, <1>3, <1>5, <1>6, CompressedAluShown, ZenonT(60) DEF Quadrant1, ci, ci3, ci5

LEMMA CompressedMoveShown ==
  ASSUME NEW d \in Half \X Half, QUADRANT(d) = 2, COPCODE(d) = 4
  PROVE  Shown(CompressedMove(d), d)
<1> DEFINE i == inst_crtype_read(d)
           r == IF CFUNCT1(d) = 0 THEN x0 ELSE ra
<1>1. ShortOf(i, d)
  <2>1. i.imm = 0
    BY ClearedRead, Zenon DEF inst_crtype_read, Compressed, Cleared, ShortRead, Read, Fits, Keys
  <2>2. Draws(0, d, 12, Blank(11), 0)
    BY BlankDraws
  <2>3. QED
    BY <2>1, <2>2, Rows2, ReadersRvc DEF ShortOf
<1>2. CompressedMove(d) =
        IF i.rs2 = 0
        THEN Checked(i.rs1 # 0, [i EXCEPT !.type = "jalr", !.continue_exec = TRUE, !.rd = r])
        ELSE IF CFUNCT1(d) = 0 THEN [i EXCEPT !.type = "add", !.rd = i.rs1, !.rs1 = x0]
        ELSE [i EXCEPT !.type = "add", !.rd = i.rs1]
  BY Zenon DEF CompressedMove
<1> HIDE DEF i, r
<1>3. /\ Right([i EXCEPT !.type = "jalr", !.continue_exec = TRUE, !.rd = r], d)
      /\ Right([i EXCEPT !.type = "add", !.rd = i.rs1, !.rs1 = x0], d)
      /\ Right([i EXCEPT !.type = "add", !.rd = i.rs1], d)
  BY <1>1, KeepsRight, Zenon
<1>4. Shown(Checked(i.rs1 # 0, [i EXCEPT !.type = "jalr", !.continue_exec = TRUE, !.rd = r]), d)
  BY <1>3, CheckedShown, Zenon
<1>5. QED
  BY <1>2, <1>3, <1>4, Zenon DEF Shown

\* c.slli uses the reader of the signed immediates; its six bits are drawn right.
LEMMA SlliRight ==
  ASSUME NEW d \in Half \X Half, QUADRANT(d) = 2, COPCODE(d) = 0
  PROVE  Right([inst_citype_read(d) EXCEPT !.type = "slli", !.rs1 = inst_citype_read(d).rd], d)
<1> DEFINE row == <<5, x, x, x, x, x, 4, 3, 2, 1, 0>>
           at == <<11, 10, 9, 8, 7, 1>>
           ci == inst_citype_read(d)
           i == [ci EXCEPT !.type = "slli", !.rs1 = ci.rd]
<1>1. Inverse(at, row, 5)
  BY DEF Inverse, x
<1>2. RvcRow(d) = row /\ RvcReach(d) = 0 /\ Draws(ci.imm, d, 12, row, 31)
  BY Rows2, DrawnCI
<1> HIDE DEF row, at
<1>3. ASSUME NEW k \in 0 .. 5
      PROVE  ImmBit(ci.imm, k) = RvcBit(d, k)
  <2>1. k \in 0 .. 31 /\ k <= 5 /\ 5 \in 0 .. 31
    OBVIOUS
  <2>2. \A reach \in {0, 31} : RowBit(d, 12, row, reach, k) = AtBit(at, 5, d, 12, reach, k)
    BY <1>1, <2>1, RowAsDrawn, SMT
  <2>3. RowBit(d, 12, row, 0, k) = RowBit(d, 12, row, 31, k)
    BY <2>1, <2>2 DEF AtBit
  <2>4. ImmBit(ci.imm, k) = RowBit(d, 12, row, 31, k)
    BY <1>2, <2>1, DrawnBits, SMT
  <2>5. QED
    BY <1>2, <2>3, <2>4, Zenon DEF RvcBit
<1>4. i.type = "slli" /\ i.rvc = TRUE /\ i.imm = ci.imm
  BY ReadersRvc, ZenonT(60) DEF ShortRead, Read, Fits, Keys
<1>5. "slli" \in Shifts /\ ci.imm \in Signed32
  BY <1>2, Zenon DEF Shifts, Draws
<1> HIDE DEF i, ci
<1>6. Right(i, d)
  BY <1>3, <1>4, <1>5, Zenon DEF Right
<1>7. QED
  BY <1>6, Zenon DEF i, ci

LEMMA Quadrant2Shown ==
  ASSUME NEW d \in Half \X Half, QUADRANT(d) = 2
  PROVE  Shown(Quadrant2(d), d)
<1> DEFINE ci == inst_citype_read(d)
           ci2 == inst_citype_read2(d)
           ci4 == inst_citype_read4(d)
           c == COPCODE(d)
<1>1. \/ c = 0 \/ c = 1 \/ c = 2 \/ c = 3 \/ c = 4 \/ c = 5 \/ c = 6 \/ c = 7
  BY Fields
<1>2. /\ c \in {1, 3} => ShortOf(ci2, d)
      /\ c = 2 => ShortOf(ci4, d)
      /\ c \in {5, 7} => ShortOf(inst_csstype_read(d), d)
      /\ c = 6 => ShortOf(inst_csstype_read2(d), d)
  BY Rows2, DrawnCLdsp, DrawnCLwsp, DrawnCSdsp, DrawnCSwsp, ReadersRvc DEF ShortOf
<1>3. c = 0 => Shown([ci EXCEPT !.type = "slli", !.rs1 = ci.rd], d)
  BY SlliRight, Arms, Zenon
<1> HIDE DEF ci, ci2, ci4
<1>4. /\ c = 1 => Shown([ci2 EXCEPT !.type = "fld", !.rs1 = sp], d)
      /\ c = 2 => Right([ci4 EXCEPT !.type = "lw", !.rs1 = sp], d)
      /\ c = 3 => Right([ci2 EXCEPT !.type = "ld", !.rs1 = sp], d)
  BY <1>2, KeepsRight, Arms, Zenon
<1>5. /\ c = 2 => Shown(Checked(ci4.rd # 0, [ci4 EXCEPT !.type = "lw", !.rs1 = sp]), d)
      /\ c = 3 => Shown(Checked(ci2.rd # 0, [ci2 EXCEPT !.type = "ld", !.rs1 = sp]), d)
  BY <1>4, CheckedShown, Zenon
<1>6. /\ c = 5 => Shown([inst_csstype_read(d) EXCEPT !.type = "fsd", !.rs1 = sp], d)
      /\ c = 6 => Shown([inst_csstype_read2(d) EXCEPT !.type = "sw", !.rs1 = sp], d)
      /\ c = 7 => Shown([inst_csstype_read(d) EXCEPT !.type = "sd", !.rs1 = sp], d)
  BY <1>2, KeepsRight, Arms, Zenon
<1>7. QED
  BY <1>1, <1>3, <1>4, <1>5, <1>6, CompressedMoveShown, ZenonT(60) DEF Quadrant2, ci, ci2, ci4

\* The same for the instructions of 32 bits.
LEMMA KeepsLong ==
  ASSUME NEW i, NEW d, NEW f, LongOf(i, d, f), NEW t, Format(t) = f
  PROVE  /\ Right([i EXCEPT !.type = t], d)
         /\ Right([i EXCEPT !.type = t, !.continue_exec = TRUE], d)
<1> DEFINE Kept(j) == j.rvc = FALSE /\ j.imm = i.imm /\ j.type = t
<1>1. DOMAIN i = Keys /\ i.rvc = FALSE /\ Draws(i.imm, d, 31, Row32[f], 31)
  BY Zenon DEF LongOf, LongRead, Read, Fits
<1>2. ASSUME NEW j, Kept(j) PROVE Right(j, d)
  <2>1. Format(j.type) = f /\ j.imm = i.imm
    BY <1>2, Zenon
  <2>2. Draws(j.imm, d, 31, Row32[Format(j.type)], 31)
    BY <1>1, <2>1
  <2>3. QED
    BY <1>2, <2>2, LongRight, Zenon
<1>3. Kept([i EXCEPT !.type = t]) /\ Kept([i EXCEPT !.type = t, !.continue_exec = TRUE])
  BY <1>1, Zenon DEF Keys
<1> HIDE DEF Kept
<1>4. QED
  BY <1>2, <1>3, Zenon

LEMMA TypedShown ==
  ASSUME NEW i, NEW d, NEW f, LongOf(i, d, f), NEW t, t # "illegal" => Format(t) = f
  PROVE  Shown(Typed(t, i), d)
<1>1. CASE t = "illegal"
  BY <1>1, Zenon DEF Typed, Checked, Shown
<1>2. CASE t # "illegal"
  <2>1. Typed(t, i) = [i EXCEPT !.type = t]
    BY <1>2, Zenon DEF Typed, Checked
  <2>2. Right([i EXCEPT !.type = t], d)
    BY <1>2, KeepsLong, Zenon
  <2>3. QED
    BY <2>1, <2>2, Zenon DEF Shown
<1>3. QED
  BY <1>1, <1>2

\* What the long readers return.
LEMMA LongReaders ==
  ASSUME NEW d \in Half \X Half
  PROVE  /\ LongOf(inst_itype_read(d), d, "I") /\ LongOf(inst_stype_read(d), d, "S")
         /\ LongOf(inst_btype_read(d), d, "B") /\ LongOf(inst_utype_read(d), d, "U")
         /\ LongOf(inst_jtype_read(d), d, "J") /\ LongOf(inst_rtype_read(d), d, "R")
         /\ LongOf(inst_csrtype_read(d), d, "R") /\ LongOf(inst_fprtype_read(d), d, "R")
         /\ LongOf(Cleared, d, "R")
<1>1. /\ LongOf(inst_itype_read(d), d, "I") /\ LongOf(inst_stype_read(d), d, "S")
      /\ LongOf(inst_btype_read(d), d, "B") /\ LongOf(inst_utype_read(d), d, "U")
      /\ LongOf(inst_jtype_read(d), d, "J")
  BY DrawnI, DrawnS, DrawnB, DrawnU, DrawnJ, Readers32, Zenon DEF LongOf
<1>2. ASSUME NEW i, LongRead(i), i.imm = 0 PROVE LongOf(i, d, "R")
  <2>1. Row32["R"] = Blank(25)
    BY DEF Row32
  <2>2. Draws(0, d, 31, Blank(25), 31)
    BY BlankDraws
  <2>3. QED
    BY <1>2, <2>1, <2>2 DEF LongOf
<1>3. Cleared.imm = 0 /\ LongRead(Cleared)
  BY ClearedRead, Zenon DEF Cleared
<1>4. /\ inst_rtype_read(d).imm = 0 /\ inst_csrtype_read(d).imm = 0
      /\ inst_fprtype_read(d).imm = 0
  BY <1>3, Zenon
     DEF inst_rtype_read, inst_csrtype_read, inst_fprtype_read, LongRead, Read, Fits, Keys
<1>5. QED
  BY <1>1, <1>2, <1>3, <1>4, Readers32, Zenon

\* The types of a kind have its format.
LEMMA KindFormat ==
  ASSUME NEW t, t # "illegal"
  PROVE  /\ t \in KindI => Format(t) = "I"
         /\ t \in KindS => Format(t) = "S"
         /\ t \in KindB => Format(t) = "B"
         /\ t \in KindR => Format(t) = "R"
BY Formats, Zenon DEF KindI, KindS, KindB

LEMMA OpcodesShown ==
  ASSUME NEW d \in Half \X Half
  PROVE  Shown(Opcodes(d), d)
<1> DEFINE no == "illegal"
           f3 == FUNCT3(d)
           i == inst_itype_read(d)
           s == inst_stype_read(d)
<1>1. FUNCT3(d) \in 0 .. 7
  BY Fields
<1>2. ASSUME NEW t \in KindI PROVE Shown(Typed(t, i), d)
  BY KindFormat, LongReaders, TypedShown, Zenon
<1>3. ASSUME NEW t \in KindS PROVE Shown(Typed(t, s), d)
  BY KindFormat, LongReaders, TypedShown, Zenon
<1>4. ASSUME NEW t \in KindB PROVE Shown(Typed(t, inst_btype_read(d)), d)
  BY KindFormat, LongReaders, TypedShown, Zenon
<1>5. ASSUME NEW t \in KindR
      PROVE  /\ Shown(Typed(t, inst_rtype_read(d)), d) /\ Shown(Typed(t, inst_fprtype_read(d)), d)
             /\ Shown(Typed(t, inst_csrtype_read(d)), d) /\ Shown(Typed(t, Cleared), d)
  BY KindFormat, LongReaders, TypedShown, Zenon
<1>6. /\ Shown(Typed(Case(<<"lb", "lh", "lw", "ld", "lbu", "lhu", "lwu">>, f3), i), d)
      /\ Shown(Typed(Case(<<no, no, "flw", "fld">>, f3), i), d)
      /\ Shown(Typed(ImmediateType(d), i), d) /\ Shown(Typed(ImmediateWType(d), i), d)
  BY <1>1, <1>2, SmallTables, IntegerTables, Zenon
<1>7. /\ Shown(Typed(Case(<<"sb", "sh", "sw", "sd">>, f3), s), d)
      /\ Shown(Typed(Case(<<no, no, "fsw", "fsd">>, f3), s), d)
      /\ Shown(Typed(Case(<<"beq", "bne", no, no, "blt", "bge", "bltu", "bgeu">>, f3),
                     inst_btype_read(d)), d)
  BY <1>1, <1>3, <1>4, SmallTables, Zenon
<1>8. /\ Shown(Typed(Case(<<"fence", "fence_i">>, f3), Cleared), d)
      /\ Shown(Typed(Case(<<no, "csrrw", "csrrs", "csrrc", no, "csrrwi", "csrrsi", "csrrci">>,
                          f3), inst_csrtype_read(d)), d)
  BY <1>1, <1>5, SmallTables, Zenon
<1>9. /\ Shown(Typed(RegisterType(d), inst_rtype_read(d)), d)
      /\ Shown(Typed(RegisterWType(d), inst_rtype_read(d)), d)
      /\ Shown(Typed(FloatType(d), inst_rtype_read(d)), d)
      /\ OPCODE(d) \in 16 .. 19 => Shown(Typed(FusedType(d), inst_fprtype_read(d)), d)
  BY <1>5, IntegerTables, FloatTables, Zenon
<1>10. Format("auipc") = "U" /\ Format("lui") = "U" /\ Format("jalr") = "I" /\ Format("jal") = "J"
  BY Formats, Zenon DEF TypesU, TypesI
<1>11. /\ Shown(Typed("auipc", inst_utype_read(d)), d) /\ Shown(Typed("lui", inst_utype_read(d)), d)
  BY <1>10, LongReaders, TypedShown, Zenon
<1>12. /\ Shown([i EXCEPT !.type = "jalr", !.continue_exec = TRUE], d)
       /\ Shown([inst_jtype_read(d) EXCEPT !.type = "jal", !.continue_exec = TRUE], d)
  BY <1>10, LongReaders, KeepsLong, Arms, Zenon
<1>13. QED
  BY <1>6, <1>7, <1>8, <1>9, <1>11, <1>12, Arms, Zenon DEF Opcodes

\* For every word that decode_inst accepts, of two bytes or four, the readers put each bit
\* of the immediate where the manual draws it, repeat the sign bit up to bit 31 where the
\* format is signed, and leave no immediate where the format has none.
THEOREM ImmediatesRight == Spec => []ImmediatesAsDrawn
<1>1. DecodeInv => ImmediatesAsDrawn
  <2>1. SUFFICES ASSUME DecodeInv, ctl = "decoded" PROVE Right(inst, data)
    BY Zenon DEF ImmediatesAsDrawn, Right
  <2>2. inst = decode_inst(Cleared, data) /\ inst # Illegal /\ data \in Half \X Half
    BY <2>1, Zenon DEF DecodeInv
  <2>3. QUADRANT(data) = 0 \/ QUADRANT(data) = 1 \/ QUADRANT(data) = 2 \/ QUADRANT(data) = 3
    BY <2>2, Fields
  <2>4. CASE data = EcallWord
    <3>1. inst = [Cleared EXCEPT !.type = "ecall", !.continue_exec = TRUE]
      BY <2>2, <2>4, DecodedEcall, Zenon
    <3>2. Format("ecall") = "R"
      BY Formats, Zenon
    <3>3. LongOf(Cleared, data, "R")
      BY <2>2, LongReaders, Zenon
    <3>4. QED
      BY <3>1, <3>2, <3>3, KeepsLong, Zenon
  <2>5. CASE data # EcallWord
    <3>1. Quadrant3(Cleared, data) = Opcodes(data)
      BY <2>5, Zenon DEF Quadrant3
    <3>2. Shown(decode_inst(Cleared, data), data)
      BY <2>2, <2>3, <3>1, Quadrant0Shown, Quadrant1Shown, Quadrant2Shown, OpcodesShown, Zenon
         DEF decode_inst
    <3>3. QED
      BY <2>2, <3>2, Zenon DEF Shown
  <2>6. QED
    BY <2>4, <2>5, Zenon
<1>2. QED
  BY <1>1, DecodeInvariant, PTL

-----------------------------------------------------------------------------
(* The bits of an expanded word.                                           *)

\* A digit of half a number is the next digit of the number.
LEMMA HalfDigit ==
  ASSUME NEW v \in Int, NEW k \in 0 .. 30
  PROVE  v \div 2 \in Int /\ Digit(v, k + 1) = Digit(v \div 2, k)
<1>1. PICK w \in Int, e \in Bit : w = v \div 2 /\ e = v % 2 /\ v = e + 2 * w
  BY DEF Bit
<1>2. PICK j \in 0 .. 31 : j = k + 1 /\ j # 0 /\ j - 1 = k
  OBVIOUS
<1>3. Digit(e + 2 * w, j) = Digit(w, j - 1)
  BY <1>2, Below, Zenon
<1>4. QED
  BY <1>1, <1>2, <1>3, Zenon

\* Numbers with the same lowest m digits.
LEMMA SameDigits ==
  ASSUME NEW m \in 1 .. 32, NEW u \in Int, NEW v \in Int,
         \A k \in 0 .. (m - 1) : Digit(u, k) = Digit(v, k)
  PROVE  u % 2^m = v % 2^m
<1> DEFINE Same(n, p, q) == \A k \in 0 .. (n - 1) : Digit(p, k) = Digit(q, k)
           S == {n \in 1 .. 32 : \A p, q \in Int : Same(n, p, q) => p % 2^n = q % 2^n}
<1>1. \A p \in Int : Digit(p, 0) = p % 2
  <2>1. \A p \in Int : p \div 2^0 = p
    OBVIOUS
  <2>2. QED
    BY <2>1, Zenon DEF Digit
<1>2. 1 \in S
  <2>1. 2^1 = 2 /\ 0 \in 0 .. (1 - 1)
    OBVIOUS
  <2>2. QED
    BY <1>1, <2>1
<1>3. ASSUME NEW n \in 1 .. 31, n \in S PROVE n + 1 \in S
  <2>1. SUFFICES ASSUME NEW p \in Int, NEW q \in Int, Same(n + 1, p, q)
                 PROVE  p % 2^(n + 1) = q % 2^(n + 1)
    OBVIOUS
  <2>2. n \in 0 .. 31 /\ 0 \in 0 .. ((n + 1) - 1)
    OBVIOUS
  <2>3. PICK i \in Int, j \in Int : i = p \div 2 /\ j = q \div 2
    OBVIOUS
  <2>4. ASSUME NEW k \in 0 .. (n - 1) PROVE Digit(i, k) = Digit(j, k)
    <3>1. k \in 0 .. 30 /\ k + 1 \in 0 .. ((n + 1) - 1)
      OBVIOUS
    <3>2. Digit(p, k + 1) = Digit(p \div 2, k) /\ Digit(q, k + 1) = Digit(q \div 2, k)
      BY <3>1, HalfDigit, Zenon
    <3>3. Digit(p, k + 1) = Digit(q, k + 1)
      BY <2>1, <3>1, Zenon
    <3>4. QED
      BY <2>3, <3>2, <3>3, Zenon
  <2>5. i % 2^n = j % 2^n
    <3>1. Same(n, i, j)
      BY <2>4
    <3> HIDE DEF Same
    <3>2. QED
      BY <1>3, <3>1
  <2>6. p % 2 = q % 2
    BY <1>1, <2>1, <2>2, Zenon
  <2>7. /\ p % 2^(n + 1) = (p % 2) + 2 * ((p \div 2) % 2^n)
        /\ q % 2^(n + 1) = (q % 2) + 2 * ((q \div 2) % 2^n)
    BY <2>2, CutOnce, Zenon
  <2>8. QED
    BY <2>3, <2>5, <2>6, <2>7, Zenon
<1> HIDE DEF S
<1>4. 1 .. 32 \subseteq S
  BY <1>2, <1>3, Unrolled, Zenon
<1>5. QED
  BY <1>4, Zenon DEF S

\* A field is the number that has its bits as digits.
LEMMA FieldIs ==
  ASSUME NEW w \in Half \X Half, NEW n \in 1 .. 32, NEW lo \in 0 .. 31, lo + n <= 32,
         NEW v \in Nat, v < 2^n,
         \A k \in 0 .. (n - 1) : Bits(w, lo + k, 1) = Digit(v, k)
  PROVE  Bits(w, lo, n) = v
<1>1. PICK f \in Nat : f = Bits(w, lo, n) /\ f < 2^n
  BY FieldRange, Zenon
<1>2. PICK p \in Nat \ {0} : p = 2^n
  <2>1. CASE n < 32
    <3>1. n \in 0 .. 31
      BY <2>1
    <3>2. QED
      BY <3>1, Powers, Zenon
  <2>2. CASE ~(n < 32)
    <3>1. n = 32 /\ 2^32 \in Nat \ {0}
      BY <2>2, SMT
    <3>2. QED
      BY <3>1, Zenon
  <2>3. QED
    BY <2>1, <2>2
<1>3. f = Above(w, lo, n, 0)
  <2>1. f = f + p * 0
    OBVIOUS
  <2>2. QED
    BY <1>1, <1>2, <2>1, Zenon DEF Above
<1>4. 0 \in Int /\ f \in Int /\ v \in Int
  OBVIOUS
<1>5. \A k \in 0 .. 31 : Digit(Above(w, lo, n, 0), k) =
        IF k < n THEN Bits(w, lo + k, 1) ELSE Digit(0, k - n)
  BY <1>4, AboveBits, ZenonT(60)
<1>6. \A k \in 0 .. (n - 1) : k \in 0 .. 31 /\ k < n
  OBVIOUS
<1>7. \A k \in 0 .. (n - 1) : Digit(f, k) = Digit(v, k)
  BY <1>3, <1>5, <1>6, Zenon
<1>8. f % 2^n = v % 2^n
  BY <1>4, <1>7, SameDigits, Zenon
<1>9. f % p = v % p /\ f < p /\ v < p
  BY <1>1, <1>2, <1>8, Zenon
<1>10. \A g \in Nat : g < p => g % p = g
  OBVIOUS
<1>11. QED
  BY <1>1, <1>9, <1>10, Zenon

\* Numbers of 32 bits with the same digits are equal.
LEMMA SameNumber ==
  ASSUME NEW u \in Signed32, NEW v \in Signed32, \A k \in 0 .. 31 : Digit(u, k) = Digit(v, k)
  PROVE  u = v
<1>1. 32 \in 1 .. 32 /\ 32 - 1 = 31 /\ u \in Int /\ v \in Int
  BY DEF Signed32
<1>2. u % 2^32 = v % 2^32
  BY <1>1, SameDigits, Zenon
<1>3. u % 4294967296 = v % 4294967296
  BY <1>2, SMT
<1>4. QED
  BY <1>3, SMT DEF Signed32

\* A number of n bits below another number.
LEMMA Joined ==
  ASSUME NEW n \in 1 .. 31, NEW a \in Nat, a < 2^n, NEW b \in Int
  PROVE  /\ a + 2^n * b \in Int
         /\ \A k \in 0 .. 31 : Digit(a + 2^n * b, k) =
              IF k < n THEN Digit(a, k) ELSE Digit(b, k - n)
<1> DEFINE Right2(m, c, p) ==
             /\ c + 2^m * p \in Int
             /\ \A k \in 0 .. 31 : Digit(c + 2^m * p, k) =
                  IF k < m THEN Digit(c, k) ELSE Digit(p, k - m)
           S == {m \in 1 .. 32 : \A c \in Nat, p \in Int : c < 2^m => Right2(m, c, p)}
<1>1. 1 \in S
  <2>1. SUFFICES ASSUME NEW c \in Nat, NEW p \in Int, c < 2^1 PROVE Right2(1, c, p)
    OBVIOUS
  <2>2. 2^1 = 2 /\ c \in Bit /\ c + 2 * p \in Int /\ c = c + 2 * 0 /\ 0 \in Int /\ 0 \in 0 .. 31
    BY <2>1 DEF Bit
  <2>3. Digit(c, 0) = c
    <3>1. Digit(c + 2 * 0, 0) = c
      BY <2>2, Below, Zenon
    <3>2. QED
      BY <2>2, <3>1, Zenon
  <2>4. \A k \in 0 .. 31 : Digit(c + 2 * p, k) = IF k = 0 THEN c ELSE Digit(p, k - 1)
    BY <2>2, Below, Zenon
  <2>5. \A k \in 0 .. 31 : k < 1 <=> k = 0
    OBVIOUS
  <2>6. QED
    BY <2>2, <2>3, <2>4, <2>5, Zenon
<1>2. ASSUME NEW m \in 1 .. 31, m \in S PROVE m + 1 \in S
  <2>1. SUFFICES ASSUME NEW c \in Nat, NEW p \in Int, c < 2^(m + 1) PROVE Right2(m + 1, c, p)
    OBVIOUS
  <2>2. PICK q \in Nat \ {0} : q = 2^m /\ 2^(m + 1) = 2 * q
    <3>1. m \in 0 .. 31
      OBVIOUS
    <3>2. QED
      BY <3>1, Powers, Zenon
  <2>3. PICK e \in Bit, f \in Nat : c = e + 2 * f /\ f < q
    <3>1. c % 2 \in Bit /\ c \div 2 \in Nat /\ c = (c % 2) + 2 * (c \div 2)
      BY DEF Bit
    <3>2. c \div 2 < q
      BY <2>1, <2>2
    <3>3. QED
      BY <3>1, <3>2
  <2>4. f < 2^m /\ f \in Int
    <3>1. f \in Int
      BY <2>3
    <3>2. QED
      BY <2>2, <2>3, <3>1, Zenon
  <2>5. Right2(m, f, p)
    BY <1>2, <2>3, <2>4, Zenon
  <2>6. PICK g \in Int : /\ g = f + q * p
                         /\ \A k \in 0 .. 31 : Digit(g, k) =
                              IF k < m THEN Digit(f, k) ELSE Digit(p, k - m)
    BY <2>2, <2>5, Zenon
  <2>7. c + 2^(m + 1) * p = e + 2 * g /\ e + 2 * g \in Int
    <3>1. PICK z \in Int : z = q * p /\ (2 * q) * p = 2 * z
      OBVIOUS
    <3>2. (e + 2 * f) + 2 * z = e + 2 * (f + z) /\ e + 2 * g \in Int
      BY DEF Bit
    <3>3. QED
      BY <2>2, <2>3, <2>6, <3>1, <3>2, Zenon
  <2>8. ASSUME NEW k \in 0 .. 31
        PROVE  Digit(e + 2 * g, k) = IF k < m + 1 THEN Digit(c, k) ELSE Digit(p, k - (m + 1))
    <3>1. Digit(e + 2 * g, k) = IF k = 0 THEN e ELSE Digit(g, k - 1)
      BY Below, ZenonT(60)
    <3>2. Digit(c, k) = IF k = 0 THEN e ELSE Digit(f, k - 1)
      BY <2>3, <2>4, Below, ZenonT(60)
    <3>3. k = 0 => k < m + 1
      OBVIOUS
    <3>4. CASE k = 0
      BY <3>1, <3>2, <3>3, <3>4, Zenon
    <3>5. CASE k # 0
      <4>1. PICK j \in 0 .. 31 : j = k - 1 /\ (j < m <=> k < m + 1) /\ j - m = k - (m + 1)
        BY <3>5
      <4>2. QED
        BY <2>6, <3>1, <3>2, <3>5, <4>1, Zenon
    <3>6. QED
      BY <3>4, <3>5
  <2>9. QED
    BY <2>7, <2>8, Zenon
<1> HIDE DEF S
<1>3. 1 .. 32 \subseteq S
  BY <1>1, <1>2, Unrolled, Zenon
<1>4. n \in 1 .. 32
  OBVIOUS
<1>5. QED
  BY <1>3, <1>4, Zenon DEF S

\* The number v of n bits has the bits from bit[b] up as its digits.
Made(v, n, bit, b) == v \in Nat /\ v < 2^n /\ \A k \in 0 .. (n - 1) : Digit(v, k) = bit[b + k]

\* Two numbers of n bits make one of twice as many.
LEMMA MadeTwice ==
  ASSUME NEW n \in 1 .. 8, NEW m, m = n + n, NEW p \in Nat \ {0}, p = 2^n, 2^m = p * p,
         NEW bit, NEW b \in Int, NEW v, NEW u, NEW c, c = b + n,
         Made(v, n, bit, b), Made(u, n, bit, c)
  PROVE  Made(v + p * u, m, bit, b)
<1>1. v \in Nat /\ v < p /\ u \in Nat /\ u < p /\ v < 2^n
  BY Zenon DEF Made
<1>2. v + p * u \in Nat /\ v + p * u < p * p
  <2>1. p * u \in Nat /\ p * u <= p * (p - 1) /\ p * (p - 1) = p * p - p
    BY <1>1
  <2>2. QED
    BY <1>1, <2>1
<1>3. u \in Int /\ n \in 1 .. 31
  BY <1>1
<1>4. \A k \in 0 .. 31 : Digit(v + p * u, k) = IF k < n THEN Digit(v, k) ELSE Digit(u, k - n)
  <2>1. \A k \in 0 .. 31 : Digit(v + 2^n * u, k) = IF k < n THEN Digit(v, k) ELSE Digit(u, k - n)
    BY <1>1, <1>3, Joined, ZenonT(60)
  <2>2. QED
    BY <2>1, Zenon
<1>5. ASSUME NEW k \in 0 .. (m - 1) PROVE Digit(v + p * u, k) = bit[b + k]
  <2>1. k \in 0 .. 31
    OBVIOUS
  <2>2. CASE k < n
    <3>1. k \in 0 .. (n - 1)
      BY <2>2
    <3>2. QED
      BY <1>4, <2>1, <2>2, <3>1, Zenon DEF Made
  <2>3. CASE ~(k < n)
    <3>1. PICK j \in 0 .. (n - 1) : j = k - n /\ c + j = b + k
      BY <2>3
    <3>2. Digit(u, j) = bit[c + j]
      BY Zenon DEF Made
    <3>3. QED
      BY <1>4, <2>1, <2>3, <3>1, <3>2, Zenon
  <2>4. QED
    BY <2>2, <2>3
<1>6. QED
  BY <1>2, <1>5, Zenon DEF Made

\* The bits of the expanded word.
LEMMA ExpandedBits ==
  ASSUME NEW d, \A b \in 0 .. 31 : ExpandBit(d, Expansion(d), b) \in Bit
  PROVE  /\ Expand(d) \in Half \X Half
         /\ \A b \in 0 .. 31 : Bits(Expand(d), b, 1) = ExpandBit(d, Expansion(d), b)
<1> DEFINE bit == [b \in 0 .. 31 |-> ExpandBit(d, Expansion(d), b)]
           Two(b) == ExpandBit(d, Expansion(d), b) + 2 * ExpandBit(d, Expansion(d), b + 1)
           Four(b) == Two(b) + 4 * Two(b + 2)
           Eight(b) == Four(b) + 16 * Four(b + 4)
           low == Eight(0) + 256 * Eight(8)
           high == Eight(16) + 256 * Eight(24)
           w == Expand(d)
<1>1. w = <<low, high>>
  BY Zenon DEF Expand
<1>2. bit \in [0 .. 31 -> Bit] /\ \A b \in 0 .. 31 : bit[b] = ExpandBit(d, Expansion(d), b)
  OBVIOUS
<1> HIDE DEF bit
<1>3. ASSUME NEW b \in 0 .. 31 PROVE Made(bit[b], 1, bit, b)
  <2>1. PICK e \in Bit : e = bit[b]
    BY <1>2
  <2>2. e \in Nat /\ e < 2^1 /\ e \div 2^0 = e /\ e % 2 = e
    BY DEF Bit
  <2>3. Digit(e, 0) = e
    BY <2>2, Zenon DEF Digit
  <2>4. \A k \in 0 .. (1 - 1) : k = 0 /\ b + k = b
    OBVIOUS
  <2>5. QED
    BY <2>1, <2>2, <2>3, <2>4, Zenon DEF Made
<1>4. ASSUME NEW b \in 0 .. 30 PROVE Made(Two(b), 2, bit, b)
  <2>1. PICK c \in 0 .. 31 : c = b + 1 /\ b \in 0 .. 31 /\ b \in Int
    OBVIOUS
  <2>2. Two(b) = bit[b] + 2 * bit[c]
    BY <1>2, <2>1, Zenon
  <2>3. 1 \in 1 .. 8 /\ 2 = 1 + 1 /\ 2 \in Nat \ {0} /\ 2 = 2^1 /\ 2^2 = 2 * 2
    OBVIOUS
  <2>4. Made(bit[b], 1, bit, b) /\ Made(bit[c], 1, bit, c)
    BY <1>3, <2>1, Zenon
  <2>5. Made(bit[b] + 2 * bit[c], 2, bit, b)
    BY <2>1, <2>3, <2>4, MadeTwice, Zenon
  <2>6. QED
    BY <2>2, <2>5, Zenon
<1> HIDE DEF Two
<1>5. ASSUME NEW b \in 0 .. 28 PROVE Made(Four(b), 4, bit, b)
  <2>1. PICK c \in 0 .. 30 : c = b + 2 /\ b \in 0 .. 30 /\ b \in Int
    OBVIOUS
  <2>2. 2 \in 1 .. 8 /\ 4 = 2 + 2 /\ 4 \in Nat \ {0} /\ 4 = 2^2 /\ 2^4 = 4 * 4
    OBVIOUS
  <2>3. Made(Two(b), 2, bit, b) /\ Made(Two(c), 2, bit, c)
    BY <1>4, <2>1, Zenon
  <2>4. Made(Two(b) + 4 * Two(c), 4, bit, b)
    BY <2>1, <2>2, <2>3, MadeTwice, Zenon
  <2>5. QED
    BY <2>1, <2>4, Zenon
<1> HIDE DEF Four
<1>6. ASSUME NEW b \in 0 .. 24 PROVE Made(Eight(b), 8, bit, b)
  <2>1. PICK c \in 0 .. 28 : c = b + 4 /\ b \in 0 .. 28 /\ b \in Int
    OBVIOUS
  <2>2. 4 \in 1 .. 8 /\ 8 = 4 + 4 /\ 16 \in Nat \ {0} /\ 16 = 2^4 /\ 2^8 = 16 * 16
    OBVIOUS
  <2>3. Made(Four(b), 4, bit, b) /\ Made(Four(c), 4, bit, c)
    BY <1>5, <2>1, Zenon
  <2>4. Made(Four(b) + 16 * Four(c), 8, bit, b)
    BY <2>1, <2>2, <2>3, MadeTwice, Zenon
  <2>5. QED
    BY <2>1, <2>4, Zenon
<1> HIDE DEF Eight
<1>7. PICK n, p, m : n = 8 /\ m = 16 /\ p = 256
  OBVIOUS
<1>8. n \in 1 .. 8 /\ m = n + n /\ p \in Nat \ {0} /\ p = 2^n /\ 2^m = p * p
  BY <1>7, SMT
<1>9. low = Eight(0) + p * Eight(8) /\ high = Eight(16) + p * Eight(24)
  BY <1>7, SMT
<1>10. Made(low, m, bit, 0)
  <2>1. 0 \in 0 .. 24 /\ 8 \in 0 .. 24 /\ 0 \in Int /\ 8 = 0 + n
    BY <1>7
  <2>2. Made(Eight(0), n, bit, 0) /\ Made(Eight(8), n, bit, 8)
    BY <1>6, <1>7, <2>1
  <2> HIDE DEF low
  <2>3. Made(Eight(0) + p * Eight(8), m, bit, 0)
    BY <1>8, <2>1, <2>2, MadeTwice, Zenon
  <2>4. QED
    BY <1>9, <2>3, Zenon
<1>11. Made(high, m, bit, 16)
  <2>1. 16 \in 0 .. 24 /\ 24 \in 0 .. 24 /\ 16 \in Int /\ 24 = 16 + n
    BY <1>7
  <2>2. Made(Eight(16), n, bit, 16) /\ Made(Eight(24), n, bit, 24)
    BY <1>6, <1>7, <2>1
  <2> HIDE DEF high
  <2>3. Made(Eight(16) + p * Eight(24), m, bit, 16)
    BY <1>8, <2>1, <2>2, MadeTwice, Zenon
  <2>4. QED
    BY <1>9, <2>3, Zenon
<1> HIDE DEF low, high, w
<1>12. \A v \in Nat : v < 2^m => v \in Half
  <2>1. PICK z \in Nat : z = 2^m - 1 /\ z = 2^16 - 1
    BY <1>7, SMT
  <2>2. PICK y \in Nat : y = 2^m /\ y = z + 1
    BY <1>8, <2>1
  <2>3. \A v \in Nat : v < y => v \in 0 .. z
    BY <2>2
  <2>4. QED
    BY <2>1, <2>2, <2>3, Zenon DEF Half
<1>13. w \in Half \X Half /\ w[1] = low /\ w[2] = high
  <2>1. low \in Half /\ high \in Half
    BY <1>10, <1>11, <1>12, Zenon DEF Made
  <2>2. QED
    BY <1>1, <2>1
<1>14. ASSUME NEW b \in 0 .. 31 PROVE Bits(w, b, 1) = bit[b]
  <2>1. 2^1 = 2
    OBVIOUS
  <2>2. CASE b < 16
    <3>1. b \in 0 .. (m - 1) /\ 0 + b = b
      BY <1>7, <2>2
    <3>2. ~(b >= 16) /\ b + 1 <= 16
      BY <2>2
    <3>3. Bits(w, b, 1) = Digit(low, b)
      BY <1>13, <2>1, <3>2, Zenon DEF Bits, Digit
    <3>4. Digit(low, b) = bit[0 + b]
      BY <1>10, <3>1, Zenon DEF Made
    <3>5. QED
      BY <3>1, <3>3, <3>4, Zenon
  <2>3. CASE ~(b < 16)
    <3>1. PICK j \in 0 .. (m - 1) : j = b - 16 /\ 16 + j = b /\ b >= 16
      BY <1>7, <2>3
    <3>2. Bits(w, b, 1) = Digit(high, j)
      BY <1>13, <2>1, <3>1, Zenon DEF Bits, Digit
    <3>3. Digit(high, j) = bit[16 + j]
      BY <1>11, Zenon DEF Made
    <3>4. QED
      BY <3>1, <3>2, <3>3, Zenon
  <2>4. QED
    BY <2>2, <2>3
<1>15. QED
  BY <1>2, <1>13, <1>14, Zenon DEF w

-----------------------------------------------------------------------------
(* The short instructions as the manual expands them.                      *)

\* The registers that a reader fills in; it clears rs3 and csr.
Reads(i, r, a, b) ==
  /\ DOMAIN i = Keys /\ i.rd = r /\ i.rs1 = a /\ i.rs2 = b
  /\ i.rs3 = 0 /\ i.csr = 0

\* The instruction t with these registers, up to its immediate.
Means(i, t, r, a, b) == Reads(i, r, a, b) /\ i.type = t

\* A decoded instruction is e = <<name, rd, rs1, rs2>>.
Is(i, e) == i = Illegal \/ Means(i, e[1], e[2], e[3], e[4])

\* The registers that the readers of short instructions fill in.
LEMMA ShortReads ==
  ASSUME NEW d
  PROVE  /\ Reads(inst_catype_read(d), RP1(d) + 8, 0, RP2(d) + 8)
         /\ Reads(inst_crtype_read(d), 0, RC1(d), RC2(d))
         /\ Reads(inst_citype_read(d), RC1(d), 0, 0)
         /\ Reads(inst_citype_read2(d), RC1(d), 0, 0)
         /\ Reads(inst_citype_read3(d), RC1(d), 0, 0)
         /\ Reads(inst_citype_read4(d), RC1(d), 0, 0)
         /\ Reads(inst_citype_read5(d), RC1(d), 0, 0)
         /\ Reads(inst_cbtype_read(d), 0, RP1(d) + 8, 0)
         /\ Reads(inst_cbtype_read2(d), RP1(d) + 8, 0, 0)
         /\ Reads(inst_cstype_read(d), 0, RP1(d) + 8, RP2(d) + 8)
         /\ Reads(inst_cstype_read2(d), 0, RP1(d) + 8, RP2(d) + 8)
         /\ Reads(inst_cjtype_read(d), 0, 0, 0)
         /\ Reads(inst_cltype_read(d), RP2(d) + 8, RP1(d) + 8, 0)
         /\ Reads(inst_cltype_read2(d), RP2(d) + 8, RP1(d) + 8, 0)
         /\ Reads(inst_csstype_read(d), 0, 0, RC2(d))
         /\ Reads(inst_csstype_read2(d), 0, 0, RC2(d))
         /\ Reads(inst_ciwtype_read(d), RP2(d) + 8, 0, 0)
<1>1. Reads(Compressed, 0, 0, 0)
  BY Zenon DEF Reads, Compressed, Cleared, Keys
<1>2. ASSUME NEW i, Reads(i, 0, 0, 0), NEW v, NEW r, NEW a, NEW b
      PROVE  /\ Reads([i EXCEPT !.rd = r, !.rs2 = b], r, 0, b)
             /\ Reads([i EXCEPT !.rs1 = a, !.rs2 = b], 0, a, b)
             /\ Reads([i EXCEPT !.imm = v], 0, 0, 0)
             /\ Reads([i EXCEPT !.imm = v, !.rd = r], r, 0, 0)
             /\ Reads([i EXCEPT !.imm = v, !.rs1 = a], 0, a, 0)
             /\ Reads([i EXCEPT !.imm = v, !.rs2 = b], 0, 0, b)
             /\ Reads([i EXCEPT !.imm = v, !.rs1 = a, !.rs2 = b], 0, a, b)
             /\ Reads([i EXCEPT !.imm = v, !.rs1 = a, !.rd = r], r, a, 0)
  BY <1>2, Zenon DEF Reads, Keys
<1> HIDE DEF Compressed
<1>3. /\ Reads(inst_catype_read(d), RP1(d) + 8, 0, RP2(d) + 8)
      /\ Reads(inst_crtype_read(d), 0, RC1(d), RC2(d))
      /\ Reads(inst_citype_read(d), RC1(d), 0, 0)
      /\ Reads(inst_citype_read2(d), RC1(d), 0, 0)
      /\ Reads(inst_citype_read3(d), RC1(d), 0, 0)
  BY <1>1, <1>2, Zenon
     DEF inst_catype_read, inst_crtype_read, inst_citype_read, inst_citype_read2, inst_citype_read3
<1>4. /\ Reads(inst_citype_read4(d), RC1(d), 0, 0)
      /\ Reads(inst_citype_read5(d), RC1(d), 0, 0)
      /\ Reads(inst_cbtype_read(d), 0, RP1(d) + 8, 0)
      /\ Reads(inst_cbtype_read2(d), RP1(d) + 8, 0, 0)
      /\ Reads(inst_cstype_read(d), 0, RP1(d) + 8, RP2(d) + 8)
      /\ Reads(inst_cstype_read2(d), 0, RP1(d) + 8, RP2(d) + 8)
  BY <1>1, <1>2, Zenon
     DEF inst_citype_read4, inst_citype_read5, inst_cbtype_read, inst_cbtype_read2,
         inst_cstype_read, inst_cstype_read2
<1>5. /\ Reads(inst_cjtype_read(d), 0, 0, 0)
      /\ Reads(inst_cltype_read(d), RP2(d) + 8, RP1(d) + 8, 0)
      /\ Reads(inst_cltype_read2(d), RP2(d) + 8, RP1(d) + 8, 0)
      /\ Reads(inst_csstype_read(d), 0, 0, RC2(d))
      /\ Reads(inst_csstype_read2(d), 0, 0, RC2(d))
      /\ Reads(inst_ciwtype_read(d), RP2(d) + 8, 0, 0)
  BY <1>1, <1>2, ZenonT(60)
     DEF inst_cjtype_read, inst_cltype_read, inst_cltype_read2, inst_csstype_read,
         inst_csstype_read2, inst_ciwtype_read
<1>6. QED
  BY <1>3, <1>4, <1>5, Zenon

\* Setting the type, and registers, of what a reader returns.
LEMMA SetMeans ==
  ASSUME NEW i, NEW r, NEW a, NEW b, Reads(i, r, a, b), NEW t, NEW u, NEW v
  PROVE  /\ Means([i EXCEPT !.type = t], t, r, a, b)
         /\ Means([i EXCEPT !.type = t, !.rs1 = u], t, r, u, b)
         /\ Means([i EXCEPT !.type = t, !.rs2 = u], t, r, a, u)
         /\ Means([i EXCEPT !.type = t, !.rd = u], t, u, a, b)
         /\ Means([i EXCEPT !.type = t, !.rd = u, !.rs1 = v], t, u, v, b)
         /\ Means([i EXCEPT !.type = t, !.continue_exec = TRUE], t, r, a, b)
         /\ Means([i EXCEPT !.type = t, !.rd = u, !.continue_exec = TRUE], t, u, a, b)
         /\ Means([i EXCEPT !.type = t, !.continue_exec = TRUE, !.rd = u], t, u, a, b)
BY Zenon DEF Means, Reads, Keys

\* e is <<t, r, a, b>>.
Names(e, t, r, a, b) == e[1] = t /\ e[2] = r /\ e[3] = a /\ e[4] = b

\* Two instructions that mean the same tuple.
LEMMA Exactly ==
  ASSUME NEW e, NEW t, NEW r, NEW a, NEW b, Names(e, t, r, a, b), NEW i, Means(i, t, r, a, b)
  PROVE  Is(i, e) /\ \A c \in BOOLEAN : Is(Checked(c, i), e)
<1>1. Is(i, e)
  BY Zenon DEF Is, Names
<1>2. QED
  BY <1>1, Zenon DEF Is, Checked


\* What Expansion gives in quadrant 0, by the opcode.
LEMMA Names0 ==
  ASSUME NEW d, QUADRANT(d) = 0
  PROVE  /\ COPCODE(d) = 0 => Names(Expansion(d), "addi", RP2(d) + 8, sp, 0)
         /\ COPCODE(d) = 1 => Names(Expansion(d), "fld", RP2(d) + 8, RP1(d) + 8, 0)
         /\ COPCODE(d) = 2 => Names(Expansion(d), "lw", RP2(d) + 8, RP1(d) + 8, 0)
         /\ COPCODE(d) = 3 => Names(Expansion(d), "ld", RP2(d) + 8, RP1(d) + 8, 0)
         /\ COPCODE(d) = 5 => Names(Expansion(d), "fsd", 0, RP1(d) + 8, RP2(d) + 8)
         /\ COPCODE(d) = 6 => Names(Expansion(d), "sw", 0, RP1(d) + 8, RP2(d) + 8)
         /\ COPCODE(d) = 7 => Names(Expansion(d), "sd", 0, RP1(d) + 8, RP2(d) + 8)
<1>1. ASSUME COPCODE(d) = 0 PROVE Names(Expansion(d), "addi", RP2(d) + 8, sp, 0)
  BY <1>1, SMT DEF Expansion, Names, RP2
<1>2. ASSUME COPCODE(d) = 1 PROVE Names(Expansion(d), "fld", RP2(d) + 8, RP1(d) + 8, 0)
  BY <1>2, SMT DEF Expansion, Names, RP1, RP2
<1>3. ASSUME COPCODE(d) = 2 PROVE Names(Expansion(d), "lw", RP2(d) + 8, RP1(d) + 8, 0)
  BY <1>3, SMT DEF Expansion, Names, RP1, RP2
<1>4. ASSUME COPCODE(d) = 3 PROVE Names(Expansion(d), "ld", RP2(d) + 8, RP1(d) + 8, 0)
  BY <1>4, SMT DEF Expansion, Names, RP1, RP2
<1>5. ASSUME COPCODE(d) = 5 PROVE Names(Expansion(d), "fsd", 0, RP1(d) + 8, RP2(d) + 8)
  BY <1>5, SMT DEF Expansion, Names, RP1, RP2
<1>6. ASSUME COPCODE(d) = 6 PROVE Names(Expansion(d), "sw", 0, RP1(d) + 8, RP2(d) + 8)
  BY <1>6, SMT DEF Expansion, Names, RP1, RP2
<1>7. ASSUME COPCODE(d) = 7 PROVE Names(Expansion(d), "sd", 0, RP1(d) + 8, RP2(d) + 8)
  BY <1>7, SMT DEF Expansion, Names, RP1, RP2
<1>8. QED
  BY <1>1, <1>2, <1>3, <1>4, <1>5, <1>6, <1>7, Zenon

\* What Expansion gives in quadrant 1, by the opcode.
LEMMA Names1 ==
  ASSUME NEW d, QUADRANT(d) = 1
  PROVE  /\ COPCODE(d) = 0 => Names(Expansion(d), "addi", RC1(d), RC1(d), 0)
         /\ COPCODE(d) = 1 => Names(Expansion(d), "addiw", RC1(d), RC1(d), 0)
         /\ COPCODE(d) = 2 => Names(Expansion(d), "addi", RC1(d), x0, 0)
         /\ COPCODE(d) = 3 /\ RC1(d) = 2 => Names(Expansion(d), "addi", RC1(d), RC1(d), 0)
         /\ COPCODE(d) = 3 /\ RC1(d) # 2 => Names(Expansion(d), "lui", RC1(d), 0, 0)
         /\ COPCODE(d) = 5 => Names(Expansion(d), "jal", x0, 0, 0)
         /\ COPCODE(d) = 6 => Names(Expansion(d), "beq", 0, RP1(d) + 8, x0)
         /\ COPCODE(d) = 7 => Names(Expansion(d), "bne", 0, RP1(d) + 8, x0)
<1>1. ASSUME COPCODE(d) = 0 PROVE Names(Expansion(d), "addi", RC1(d), RC1(d), 0)
  BY <1>1, SMT DEF Expansion, Names, RC1
<1>2. ASSUME COPCODE(d) = 1 PROVE Names(Expansion(d), "addiw", RC1(d), RC1(d), 0)
  BY <1>2, SMT DEF Expansion, Names, RC1
<1>3. ASSUME COPCODE(d) = 2 PROVE Names(Expansion(d), "addi", RC1(d), x0, 0)
  BY <1>3, SMT DEF Expansion, Names, RC1
<1>4. ASSUME COPCODE(d) = 3 /\ RC1(d) = 2 PROVE Names(Expansion(d), "addi", RC1(d), RC1(d), 0)
  BY <1>4, SMT DEF Expansion, Names, RC1, sp
<1>5. ASSUME COPCODE(d) = 3 /\ RC1(d) # 2 PROVE Names(Expansion(d), "lui", RC1(d), 0, 0)
  BY <1>5, SMT DEF Expansion, Names, RC1, sp
<1>6. ASSUME COPCODE(d) = 5 PROVE Names(Expansion(d), "jal", x0, 0, 0)
  BY <1>6, SMT DEF Expansion, Names
<1>7. ASSUME COPCODE(d) = 6 PROVE Names(Expansion(d), "beq", 0, RP1(d) + 8, x0)
  BY <1>7, SMT DEF Expansion, Names, RP1
<1>8. ASSUME COPCODE(d) = 7 PROVE Names(Expansion(d), "bne", 0, RP1(d) + 8, x0)
  BY <1>8, SMT DEF Expansion, Names, RP1
<1>9. QED
  BY <1>1, <1>2, <1>3, <1>4, <1>5, <1>6, <1>7, <1>8, Zenon

\* What Expansion gives in quadrant 2, by the opcode.
LEMMA Names2 ==
  ASSUME NEW d, QUADRANT(d) = 2
  PROVE  /\ COPCODE(d) = 0 => Names(Expansion(d), "slli", RC1(d), RC1(d), 0)
         /\ COPCODE(d) = 1 => Names(Expansion(d), "fld", RC1(d), sp, 0)
         /\ COPCODE(d) = 2 => Names(Expansion(d), "lw", RC1(d), sp, 0)
         /\ COPCODE(d) = 3 => Names(Expansion(d), "ld", RC1(d), sp, 0)
         /\ COPCODE(d) = 5 => Names(Expansion(d), "fsd", 0, sp, RC2(d))
         /\ COPCODE(d) = 6 => Names(Expansion(d), "sw", 0, sp, RC2(d))
         /\ COPCODE(d) = 7 => Names(Expansion(d), "sd", 0, sp, RC2(d))
<1>1. ASSUME COPCODE(d) = 0 PROVE Names(Expansion(d), "slli", RC1(d), RC1(d), 0)
  BY <1>1, SMT DEF Expansion, Names, RC1
<1>2. ASSUME COPCODE(d) = 1 PROVE Names(Expansion(d), "fld", RC1(d), sp, 0)
  BY <1>2, SMT DEF Expansion, Names, RC1
<1>3. ASSUME COPCODE(d) = 2 PROVE Names(Expansion(d), "lw", RC1(d), sp, 0)
  BY <1>3, SMT DEF Expansion, Names, RC1
<1>4. ASSUME COPCODE(d) = 3 PROVE Names(Expansion(d), "ld", RC1(d), sp, 0)
  BY <1>4, SMT DEF Expansion, Names, RC1
<1>5. ASSUME COPCODE(d) = 5 PROVE Names(Expansion(d), "fsd", 0, sp, RC2(d))
  BY <1>5, SMT DEF Expansion, Names, RC2
<1>6. ASSUME COPCODE(d) = 6 PROVE Names(Expansion(d), "sw", 0, sp, RC2(d))
  BY <1>6, SMT DEF Expansion, Names, RC2
<1>7. ASSUME COPCODE(d) = 7 PROVE Names(Expansion(d), "sd", 0, sp, RC2(d))
  BY <1>7, SMT DEF Expansion, Names, RC2
<1>8. QED
  BY <1>1, <1>2, <1>3, <1>4, <1>5, <1>6, <1>7, Zenon

\* The arithmetic on the registers of three bits.
LEMMA ExpansionAlu ==
  ASSUME NEW d \in Half \X Half, QUADRANT(d) = 1, COPCODE(d) = 4
  PROVE  Is(CompressedAlu(d), Expansion(d))
<1> DEFINE p == RP1(d) + 8
           q == RP2(d) + 8
           e == Expansion(d)
           h == CFUNCT2HIGH(d)
           n == 4 * CFUNCT1(d) + CFUNCT2LOW(d) + 1
           Alu == <<"sub", "xor", "or", "and", "subw", "addw">>[n]
<1>1. /\ QUADRANT(d) # 0 /\ COPCODE(d) # 0 /\ COPCODE(d) # 1 /\ COPCODE(d) # 2
      /\ COPCODE(d) # 3 /\ h \in 0 .. 3
      /\ h = 1 => h # 0
      /\ h = 2 => h # 0 /\ h # 1
      /\ h = 3 => h # 0 /\ h # 1 /\ h # 2
  BY Fields
<1>2. /\ h = 0 => Names(e, "srli", p, p, 0)
      /\ h = 1 => Names(e, "srai", p, p, 0)
      /\ h = 2 => Names(e, "andi", p, p, 0)
      /\ h = 3 => Names(e, Alu, p, p, q)
  BY <1>1, SMT DEF Expansion, Names, RP1, RP2, CFUNCT2HIGH, CFUNCT2LOW, CFUNCT1
<1> HIDE DEF e, p, q
<1>3. CASE h < 3
  <2> DEFINE i == inst_cbtype_read2(d)
             t == Case(<<"srli", "srai", "andi">>, h)
  <2>1. CompressedAlu(d) = [i EXCEPT !.type = t, !.rs1 = i.rd]
    BY <1>3, Zenon DEF CompressedAlu
  <2>2. Names(e, t, p, p, 0)
    BY <1>1, <1>2, <1>3 DEF Case
  <2>3. Reads(i, p, 0, 0) /\ i.rd = p
    BY ShortReads, Zenon DEF Reads, p
  <2> HIDE DEF i, t
  <2>4. Means([i EXCEPT !.type = t, !.rs1 = i.rd], t, p, p, 0)
    BY <2>3, SetMeans, Zenon
  <2>5. QED
    BY <2>1, <2>2, <2>4, Exactly, Zenon DEF e
<1>4. CASE ~(h < 3)
  <2> DEFINE i == inst_catype_read(d)
             t == IF CFUNCT1(d) = 0
                  THEN Case(<<"sub", "xor", "or", "and">>, CFUNCT2LOW(d))
                  ELSE Case(<<"subw", "addw">>, CFUNCT2LOW(d))
  <2>1. CompressedAlu(d) = Checked(t # "illegal", [i EXCEPT !.type = t, !.rs1 = i.rd])
    BY <1>4, Zenon DEF CompressedAlu
  <2>2. t # "illegal" => t = Alu
    <3>1. CFUNCT1(d) \in 0 .. 1 /\ CFUNCT2LOW(d) \in 0 .. 3
      BY Fields
    <3>2. QED
      BY <3>1 DEF Case
  <2>3. h = 3
    BY <1>1, <1>4
  <2>4. Reads(i, p, 0, q) /\ i.rd = p
    BY ShortReads, Zenon DEF Reads, p, q
  <2> HIDE DEF i, t, Alu, h
  <2>5. t # "illegal" => Names(e, t, p, p, q)
    BY <1>2, <2>2, <2>3, Zenon
  <2>6. Means([i EXCEPT !.type = t, !.rs1 = i.rd], t, p, p, q)
    BY <2>4, SetMeans, Zenon
  <2>7. CASE t = "illegal"
    BY <2>1, <2>7, Zenon DEF Is, Checked
  <2>8. CASE t # "illegal"
    <3>1. CompressedAlu(d) = [i EXCEPT !.type = t, !.rs1 = i.rd]
      BY <2>1, <2>8, Zenon DEF Checked
    <3>2. QED
      BY <2>5, <2>6, <2>8, <3>1, Exactly, Zenon DEF e
  <2>9. QED
    BY <2>7, <2>8, Zenon
<1>5. QED
  BY <1>3, <1>4


\* Quadrant 0 decodes a short word to the instruction that Expansion names.
LEMMA Expansion0 ==
  ASSUME NEW d \in Half \X Half, QUADRANT(d) = 0
  PROVE  Is(Quadrant0(d), Expansion(d))
<1> DEFINE c == COPCODE(d)
           p == RP1(d) + 8
           q == RP2(d) + 8
           ciw == [inst_ciwtype_read(d) EXCEPT !.type = "addi", !.rs1 = sp]
<1>1. c = 0 \/ c = 1 \/ c = 2 \/ c = 3 \/ c = 4 \/ c = 5 \/ c = 6 \/ c = 7
  BY Fields
<1>2. /\ Means(ciw, "addi", q, sp, 0)
      /\ Means([inst_cltype_read2(d) EXCEPT !.type = "fld"], "fld", q, p, 0)
      /\ Means([inst_cltype_read(d) EXCEPT !.type = "lw"], "lw", q, p, 0)
      /\ Means([inst_cltype_read2(d) EXCEPT !.type = "ld"], "ld", q, p, 0)
  BY ShortReads, SetMeans, Zenon
<1>3. /\ Means([inst_cstype_read(d) EXCEPT !.type = "fsd"], "fsd", 0, p, q)
      /\ Means([inst_cstype_read2(d) EXCEPT !.type = "sw"], "sw", 0, p, q)
      /\ Means([inst_cstype_read(d) EXCEPT !.type = "sd"], "sd", 0, p, q)
  BY ShortReads, SetMeans, Zenon
<1>4. c = 0 => Is(Checked(inst_ciwtype_read(d).imm # 0, ciw), Expansion(d))
  BY <1>2, Names0, Exactly, Zenon
<1>5. /\ c = 1 => Is([inst_cltype_read2(d) EXCEPT !.type = "fld"], Expansion(d))
      /\ c = 2 => Is([inst_cltype_read(d) EXCEPT !.type = "lw"], Expansion(d))
      /\ c = 3 => Is([inst_cltype_read2(d) EXCEPT !.type = "ld"], Expansion(d))
  BY <1>2, Names0, Exactly, Zenon
<1>6. /\ c = 5 => Is([inst_cstype_read(d) EXCEPT !.type = "fsd"], Expansion(d))
      /\ c = 6 => Is([inst_cstype_read2(d) EXCEPT !.type = "sw"], Expansion(d))
      /\ c = 7 => Is([inst_cstype_read(d) EXCEPT !.type = "sd"], Expansion(d))
  BY <1>3, Names0, Exactly, Zenon
<1>7. Is(Illegal, Expansion(d))
  BY Zenon DEF Is
<1>8. QED
  BY <1>1, <1>4, <1>5, <1>6, <1>7, Zenon DEF Quadrant0

\* So does quadrant 1.
LEMMA Expansion1 ==
  ASSUME NEW d \in Half \X Half, QUADRANT(d) = 1
  PROVE  Is(Quadrant1(d), Expansion(d))
<1> DEFINE c == COPCODE(d)
           p == RP1(d) + 8
           r == RC1(d)
           ci == inst_citype_read(d)
           ci3 == inst_citype_read3(d)
           ci5 == inst_citype_read5(d)
           cj == [inst_cjtype_read(d) EXCEPT !.type = "jal", !.rd = x0, !.continue_exec = TRUE]
           t == IF c = 6 THEN "beq" ELSE "bne"
           cb == [inst_cbtype_read(d) EXCEPT !.type = t, !.rs2 = x0]
<1>1. c = 0 \/ c = 1 \/ c = 2 \/ c = 3 \/ c = 4 \/ c = 5 \/ c \in {6, 7}
  BY Fields
<1>2. /\ Reads(ci, r, 0, 0) /\ ci.rd = r /\ Reads(ci3, r, 0, 0) /\ ci3.rd = r
      /\ Reads(ci5, r, 0, 0)
  BY ShortReads, ZenonT(60) DEF Reads
<1>3. Means(cj, "jal", x0, 0, 0) /\ Means(cb, t, 0, p, x0)
  BY ShortReads, SetMeans, Zenon
<1> HIDE DEF ci, ci3, ci5, cj, cb
<1>4. /\ Means([ci EXCEPT !.type = "addi", !.rs1 = ci.rd], "addi", r, r, 0)
      /\ Means([ci EXCEPT !.type = "addiw", !.rs1 = ci.rd], "addiw", r, r, 0)
      /\ Means([ci EXCEPT !.type = "addi", !.rs1 = x0], "addi", r, x0, 0)
  BY <1>2, SetMeans, Zenon
<1>5. /\ Means([ci3 EXCEPT !.type = "addi", !.rs1 = ci3.rd], "addi", r, r, 0)
      /\ Means([ci5 EXCEPT !.type = "lui"], "lui", r, 0, 0)
  BY <1>2, SetMeans, Zenon
<1>6. /\ c = 0 => Is([ci EXCEPT !.type = "addi", !.rs1 = ci.rd], Expansion(d))
      /\ c = 1 => Is(Checked(ci.rd # 0, [ci EXCEPT !.type = "addiw", !.rs1 = ci.rd]),
                     Expansion(d))
      /\ c = 2 => Is([ci EXCEPT !.type = "addi", !.rs1 = x0], Expansion(d))
  BY <1>4, Names1, Exactly, Zenon
<1>7. /\ c = 3 /\ r = 2 =>
           Is(Checked(ci3.imm # 0, [ci3 EXCEPT !.type = "addi", !.rs1 = ci3.rd]), Expansion(d))
      /\ c = 3 /\ r # 2 =>
           Is(Checked(ci5.imm # 0, [ci5 EXCEPT !.type = "lui"]), Expansion(d))
  BY <1>5, Names1, Exactly, Zenon
<1>8. c = 5 => Is(cj, Expansion(d))
  BY <1>3, Names1, Exactly, Zenon
<1>9. ASSUME c \in {6, 7} PROVE Is(cb, Expansion(d))
  <2>1. c = 6 \/ (c = 7 /\ c # 6)
    BY <1>9
  <2>2. Names(Expansion(d), t, 0, p, x0)
    BY <2>1, Names1, Zenon
  <2>3. QED
    BY <1>3, <2>2, Exactly, Zenon
<1>10. QED
  BY <1>1, <1>6, <1>7, <1>8, <1>9, ExpansionAlu, Zenon DEF Quadrant1, ci, ci3, ci5, cj, cb

\* The arms of quadrant 2 that jump, move and add.
LEMMA ExpansionMove ==
  ASSUME NEW d \in Half \X Half, QUADRANT(d) = 2, COPCODE(d) = 4
  PROVE  Is(CompressedMove(d), Expansion(d))
<1> DEFINE i == inst_crtype_read(d)
           r == RC1(d)
           s == RC2(d)
           h == CFUNCT1(d)
           e == Expansion(d)
           link == IF h = 0 THEN x0 ELSE ra
<1>1. /\ s = 0 => Names(e, "jalr", h, r, s)
      /\ s # 0 => Names(e, "add", r, IF h = 0 THEN x0 ELSE r, s)
  BY SMT DEF Expansion, Names, RC1, RC2, CFUNCT1
<1>2. h = link
  BY Fields DEF x0, ra
<1>3. Reads(i, 0, r, s) /\ i.rs1 = r /\ i.rs2 = s
  BY ShortReads, Zenon DEF Reads
<1>4. CompressedMove(d) =
        IF i.rs2 = 0
        THEN Checked(i.rs1 # 0, [i EXCEPT !.type = "jalr", !.continue_exec = TRUE, !.rd = link])
        ELSE IF h = 0 THEN [i EXCEPT !.type = "add", !.rd = i.rs1, !.rs1 = x0]
        ELSE [i EXCEPT !.type = "add", !.rd = i.rs1]
  BY Zenon DEF CompressedMove
<1> HIDE DEF i, r, s, h, e, link
<1>5. /\ Means([i EXCEPT !.type = "jalr", !.continue_exec = TRUE, !.rd = link],
               "jalr", link, r, s)
      /\ Means([i EXCEPT !.type = "add", !.rd = i.rs1, !.rs1 = x0], "add", r, x0, s)
      /\ Means([i EXCEPT !.type = "add", !.rd = i.rs1], "add", r, r, s)
  BY <1>3, SetMeans, Zenon
<1>6. CASE s = 0
  <2>1. Names(e, "jalr", link, r, s)
    BY <1>1, <1>2, <1>6, Zenon
  <2>2. Is(Checked(i.rs1 # 0, [i EXCEPT !.type = "jalr", !.continue_exec = TRUE,
                                        !.rd = link]), e)
    BY <1>5, <2>1, Exactly, Zenon
  <2>3. QED
    BY <1>3, <1>4, <1>6, <2>2, Zenon DEF e
<1>7. CASE s # 0 /\ h = 0
  <2>1. Is([i EXCEPT !.type = "add", !.rd = i.rs1, !.rs1 = x0], e)
    BY <1>1, <1>5, <1>7, Exactly, Zenon
  <2>2. QED
    BY <1>3, <1>4, <1>7, <2>1, Zenon DEF e
<1>8. CASE s # 0 /\ h # 0
  <2>1. Is([i EXCEPT !.type = "add", !.rd = i.rs1], e)
    BY <1>1, <1>5, <1>8, Exactly, Zenon
  <2>2. QED
    BY <1>3, <1>4, <1>8, <2>1, Zenon DEF e
<1>9. QED
  BY <1>6, <1>7, <1>8, Zenon

\* So does quadrant 2.
LEMMA Expansion2 ==
  ASSUME NEW d \in Half \X Half, QUADRANT(d) = 2
  PROVE  Is(Quadrant2(d), Expansion(d))
<1> DEFINE c == COPCODE(d)
           r == RC1(d)
           s == RC2(d)
           ci == inst_citype_read(d)
           ci2 == inst_citype_read2(d)
           ci4 == inst_citype_read4(d)
<1>1. c = 0 \/ c = 1 \/ c = 2 \/ c = 3 \/ c = 4 \/ c = 5 \/ c = 6 \/ c = 7
  BY Fields
<1>2. Reads(ci, r, 0, 0) /\ ci.rd = r /\ Reads(ci2, r, 0, 0) /\ Reads(ci4, r, 0, 0)
  BY ShortReads, ZenonT(60) DEF Reads
<1>3. /\ Means([inst_csstype_read(d) EXCEPT !.type = "fsd", !.rs1 = sp], "fsd", 0, sp, s)
      /\ Means([inst_csstype_read2(d) EXCEPT !.type = "sw", !.rs1 = sp], "sw", 0, sp, s)
      /\ Means([inst_csstype_read(d) EXCEPT !.type = "sd", !.rs1 = sp], "sd", 0, sp, s)
  BY ShortReads, SetMeans, Zenon
<1> HIDE DEF ci, ci2, ci4
<1>4. /\ Means([ci EXCEPT !.type = "slli", !.rs1 = ci.rd], "slli", r, r, 0)
      /\ Means([ci2 EXCEPT !.type = "fld", !.rs1 = sp], "fld", r, sp, 0)
      /\ Means([ci4 EXCEPT !.type = "lw", !.rs1 = sp], "lw", r, sp, 0)
      /\ Means([ci2 EXCEPT !.type = "ld", !.rs1 = sp], "ld", r, sp, 0)
  BY <1>2, SetMeans, Zenon
<1>5. /\ c = 0 => Is([ci EXCEPT !.type = "slli", !.rs1 = ci.rd], Expansion(d))
      /\ c = 1 => Is([ci2 EXCEPT !.type = "fld", !.rs1 = sp], Expansion(d))
      /\ c = 2 => Is(Checked(ci4.rd # 0, [ci4 EXCEPT !.type = "lw", !.rs1 = sp]), Expansion(d))
      /\ c = 3 => Is(Checked(ci2.rd # 0, [ci2 EXCEPT !.type = "ld", !.rs1 = sp]), Expansion(d))
  BY <1>4, Names2, Exactly, Zenon
<1>6. /\ c = 5 => Is([inst_csstype_read(d) EXCEPT !.type = "fsd", !.rs1 = sp], Expansion(d))
      /\ c = 6 => Is([inst_csstype_read2(d) EXCEPT !.type = "sw", !.rs1 = sp], Expansion(d))
      /\ c = 7 => Is([inst_csstype_read(d) EXCEPT !.type = "sd", !.rs1 = sp], Expansion(d))
  BY <1>3, Names2, Exactly, Zenon
<1>7. QED
  BY <1>1, <1>5, <1>6, ExpansionMove, Zenon DEF Quadrant2, ci, ci2, ci4

-----------------------------------------------------------------------------
(* The immediates of short instructions fit the formats of their expansions.*)

\* From bit h up, the immediate of a short instruction repeats one bit.
Steady(d, h) == \A k \in h .. 31 : RvcBit(d, k) = RvcBit(d, h)

\* Below bit n it is 0.
Empty(d, n) == \A k \in 0 .. (n - 1) : RvcBit(d, k) = 0

\* The bits of a short immediate, from where its row has them.
LEMMA ShortRow ==
  ASSUME NEW d \in Half \X Half, NEW at, NEW row, NEW h, Inverse(at, row, h),
         DOMAIN row = 1 .. 11, RvcRow(d) = row, RvcReach(d) \in {0, 31}
  PROVE  /\ \A k \in 0 .. 31 : RvcBit(d, k) \in Bit
         /\ \A k \in 0 .. h : at[k + 1] = 0 => RvcBit(d, k) = 0
         /\ \A n \in 0 .. 31 : n > h => Steady(d, n)
<1> DEFINE reach == RvcReach(d)
<1>1. ASSUME NEW k \in 0 .. 31
      PROVE  RvcBit(d, k) = AtBit(at, h, d, 12, reach, k)
  BY RowAsDrawn, SMT DEF RvcBit
<1> HIDE DEF reach
<1>2. h \in 0 .. 31
  BY DEF Inverse
<1>3. ASSUME NEW k \in 0 .. h, at[k + 1] # 0 PROVE Bits(d, 12 + 1 - at[k + 1], 1) \in Bit
  <2>1. PICK j \in 1 .. 11 : j = at[k + 1]
    BY <1>3 DEF Inverse
  <2>2. PICK b \in 0 .. 31 : b = 12 + 1 - j
    OBVIOUS
  <2>3. QED
    BY <2>1, <2>2, OneBit, Zenon
<1>4. 0 \in Bit /\ h \in 0 .. h /\ at[h + 1] # 0
  BY <1>2 DEF Bit, Inverse
<1>5. ASSUME NEW k \in 0 .. 31 PROVE RvcBit(d, k) \in Bit
  <2>1. k <= h => k \in 0 .. h
    BY <1>2
  <2>2. QED
    BY <1>1, <1>3, <1>4, <2>1, Zenon DEF AtBit
<1>6. ASSUME NEW k \in 0 .. h, at[k + 1] = 0 PROVE RvcBit(d, k) = 0
  <2>1. k <= h /\ k \in 0 .. 31
    BY <1>2
  <2>2. QED
    BY <1>1, <1>6, <2>1, Zenon DEF AtBit
<1>7. ASSUME NEW n \in 0 .. 31, n > h PROVE Steady(d, n)
  <2> DEFINE v == IF reach = 31 THEN Bits(d, 12 + 1 - at[h + 1], 1) ELSE 0
  <2>1. ASSUME NEW k \in n .. 31 PROVE RvcBit(d, k) = v
    <3>1. k \in 0 .. 31 /\ ~(k <= h) /\ k <= 31 /\ ~(k <= 0)
      BY <1>2, <1>7
    <3>2. reach = 31 \/ (reach = 0 /\ reach # 31)
      BY DEF reach
    <3>3. CASE reach = 31
      BY <1>1, <3>1, <3>3, Zenon DEF AtBit
    <3>4. CASE reach = 0 /\ reach # 31
      BY <1>1, <3>1, <3>4, Zenon DEF AtBit
    <3>5. QED
      BY <3>2, <3>3, <3>4
  <2> HIDE DEF v
  <2>2. n \in n .. 31
    OBVIOUS
  <2>3. QED
    BY <2>1, <2>2, Zenon DEF Steady
<1>8. QED
  BY <1>5, <1>6, <1>7

\* The names that Expansion gives, by the format of the instruction in 32 bits.
ShortI == {"lw", "ld", "fld", "addi", "andi", "addiw", "jalr"}
ShortShifts == {"slli", "srli", "srai"}
ShortS == {"sw", "sd", "fsd"}
ShortB == {"beq", "bne"}
ShortR == {"add", "sub", "xor", "or", "and", "addw", "subw"}

\* Every short immediate has one bit at each place, and e = Expansion(d) uses no field of
\* its format for anything else; the immediate fits the longer format.
BitsDrawn(d) == \A k \in 0 .. 31 : RvcBit(d, k) \in Bit
Registers(e) == e[2] \in Reg /\ e[3] \in Reg /\ e[4] \in Reg
Formed(d, e) ==
  /\ BitsDrawn(d) /\ Registers(e)
  /\ \/ e[1] \in ShortI /\ e[4] = 0 /\ Steady(d, 11)
     \/ e[1] \in ShortShifts /\ e[4] = 0
     \/ e[1] \in ShortS /\ e[2] = 0 /\ Steady(d, 11)
     \/ e[1] \in ShortB /\ e[2] = 0 /\ Steady(d, 12) /\ Empty(d, 1)
     \/ e[1] = "lui" /\ e[3] = 0 /\ e[4] = 0 /\ Empty(d, 12)
     \/ e[1] = "jal" /\ e[3] = 0 /\ e[4] = 0 /\ Steady(d, 20) /\ Empty(d, 1)
     \/ e[1] \in ShortR /\ Empty(d, 32)

\* The formats of the names that Expansion gives.
LEMMA NamedForms ==
  ASSUME NEW d, NEW e, NEW t, NEW r \in Reg, NEW a \in Reg, NEW b \in Reg, BitsDrawn(d),
         Names(e, t, r, a, b)
  PROVE  /\ t \in ShortI /\ b = 0 /\ Steady(d, 11) => Formed(d, e)
         /\ t \in ShortShifts /\ b = 0 => Formed(d, e)
         /\ t \in ShortS /\ r = 0 /\ Steady(d, 11) => Formed(d, e)
         /\ t \in ShortB /\ r = 0 /\ Steady(d, 12) /\ Empty(d, 1) => Formed(d, e)
         /\ t = "lui" /\ a = 0 /\ b = 0 /\ Empty(d, 12) => Formed(d, e)
         /\ t = "jal" /\ a = 0 /\ b = 0 /\ Steady(d, 20) /\ Empty(d, 1) => Formed(d, e)
         /\ t \in ShortR /\ Empty(d, 32) => Formed(d, e)
<1>1. Registers(e) /\ e[1] = t /\ e[2] = r /\ e[3] = a /\ e[4] = b
  BY Zenon DEF Names, Registers
<1>2. QED
  BY <1>1, Zenon DEF Formed

\* The registers of a short word are registers.
LEMMA ShortRegisters ==
  ASSUME NEW d \in Half \X Half
  PROVE  /\ 0 \in Reg /\ sp \in Reg /\ x0 \in Reg /\ x0 = 0 /\ CFUNCT1(d) \in Reg
         /\ RC1(d) \in Reg /\ RC2(d) \in Reg /\ RP1(d) + 8 \in Reg /\ RP2(d) + 8 \in Reg
BY Fields DEF Reg, sp, x0

\* The expansions of quadrant 0 fit their formats.
LEMMA Formed0 ==
  ASSUME NEW d \in Half \X Half, QUADRANT(d) = 0, COPCODE(d) # 4
  PROVE  Formed(d, Expansion(d))
<1> DEFINE c == COPCODE(d)
<1>1. c = 0 \/ c = 1 \/ c = 2 \/ c = 3 \/ c = 5 \/ c = 6 \/ c = 7
  BY Fields
<1>2. ASSUME NEW at, NEW row, NEW h, Inverse(at, row, h), DOMAIN row = 1 .. 11, h < 11,
             RvcRow(d) = row
      PROVE  BitsDrawn(d) /\ Steady(d, 11)
  <2>1. RvcReach(d) \in {0, 31}
    BY Rows0
  <2>2. 11 \in 0 .. 31 /\ 11 > h
    BY <1>2 DEF Inverse
  <2>3. QED
    BY <1>2, <2>1, <2>2, ShortRow, Zenon DEF BitsDrawn
<1>3. ASSUME c = 0 PROVE BitsDrawn(d) /\ Steady(d, 11)
  <2> DEFINE row == <<5, 4, 9, 8, 7, 6, 2, 3, x, x, x>>
             at == <<0, 0, 7, 8, 2, 1, 6, 5, 4, 3>>
  <2>1. Inverse(at, row, 9) /\ DOMAIN row = 1 .. 11 /\ 9 < 11
    BY DEF Inverse, x
  <2>2. RvcRow(d) = row
    BY <1>3, Rows0
  <2> HIDE DEF row, at
  <2>3. QED
    BY <1>2, <2>1, <2>2, Zenon
<1>4. ASSUME c \in {2, 6} PROVE BitsDrawn(d) /\ Steady(d, 11)
  <2> DEFINE row == <<5, 4, 3, x, x, x, 2, 6, x, x, x>>
             at == <<0, 0, 7, 3, 2, 1, 8>>
  <2>1. Inverse(at, row, 6) /\ DOMAIN row = 1 .. 11 /\ 6 < 11
    BY DEF Inverse, x
  <2>2. RvcRow(d) = row
    BY <1>4, Rows0
  <2> HIDE DEF row, at
  <2>3. QED
    BY <1>2, <2>1, <2>2, Zenon
<1>5. ASSUME c \in {1, 3, 5, 7} PROVE BitsDrawn(d) /\ Steady(d, 11)
  <2> DEFINE row == <<5, 4, 3, x, x, x, 7, 6, x, x, x>>
             at == <<0, 0, 0, 3, 2, 1, 8, 7>>
  <2>1. Inverse(at, row, 7) /\ DOMAIN row = 1 .. 11 /\ 7 < 11
    BY DEF Inverse, x
  <2>2. RvcRow(d) = row
    BY <1>5, Rows0
  <2> HIDE DEF row, at
  <2>3. QED
    BY <1>2, <2>1, <2>2, Zenon
<1>6. BitsDrawn(d) /\ Steady(d, 11)
  BY <1>1, <1>3, <1>4, <1>5, Zenon
<1>7. {"addi", "fld", "lw", "ld"} \subseteq ShortI /\ {"fsd", "sw", "sd"} \subseteq ShortS
  BY DEF ShortI, ShortS
<1>8. \/ \E t \in ShortI, r \in Reg, a \in Reg : Names(Expansion(d), t, r, a, 0)
      \/ \E t \in ShortS, a \in Reg, b \in Reg : Names(Expansion(d), t, 0, a, b)
  BY <1>1, <1>7, Names0, ShortRegisters, Zenon
<1>9. QED
  BY <1>6, <1>8, NamedForms, ShortRegisters, Zenon

\* What ShortRow says of a row with no bit below n or above h.
LEMMA ShortRowOf ==
  ASSUME NEW d \in Half \X Half, QUADRANT(d) \in {0, 1, 2}, NEW at, NEW row, NEW h,
         Inverse(at, row, h), DOMAIN row = 1 .. 11, RvcRow(d) = row
  PROVE  /\ BitsDrawn(d)
         /\ \A n \in 0 .. 31 : n > h => Steady(d, n)
         /\ \A n \in 0 .. h : (\A k \in 0 .. (n - 1) : at[k + 1] = 0) => Empty(d, n)
<1>1. RvcReach(d) \in {0, 31}
  BY Rows0, Rows1, Rows2
<1>2. ASSUME NEW n \in 0 .. h, \A k \in 0 .. (n - 1) : at[k + 1] = 0 PROVE Empty(d, n)
  <2>1. \A k \in 0 .. (n - 1) : k \in 0 .. h
    BY DEF Inverse
  <2>2. QED
    BY <1>1, <1>2, <2>1, ShortRow, Zenon DEF Empty
<1>3. QED
  BY <1>1, <1>2, ShortRow, Zenon DEF BitsDrawn

\* A row that draws nothing gives an immediate of 0.
LEMMA BlankShort ==
  ASSUME NEW d \in Half \X Half, QUADRANT(d) \in {0, 1, 2}, RvcRow(d) = Blank(11)
  PROVE  BitsDrawn(d) /\ Empty(d, 32) /\ Steady(d, 11)
<1>1. RvcReach(d) \in {0, 31} /\ 11 \in Nat \ {0} /\ 32 - 1 = 31 /\ 0 \in Bit /\ 11 \in 11 .. 31
  BY Rows0, Rows1, Rows2 DEF Bit
<1>2. \A k \in 0 .. 31 : RvcBit(d, k) = 0
  <2>1. PICK reach \in {0, 31} : reach = RvcReach(d)
    BY <1>1, Zenon
  <2>2. \A k \in 0 .. 31 : RowBit(d, 12, Blank(11), reach, k) = 0
    BY <1>1, BlankRow, ZenonT(60)
  <2>3. QED
    BY <2>1, <2>2, Zenon DEF RvcBit
<1>3. \A k \in 11 .. 31 : k \in 0 .. 31
  OBVIOUS
<1>4. QED
  BY <1>1, <1>2, <1>3, ZenonT(60) DEF BitsDrawn, Empty, Steady

\* The expansions of quadrant 1 fit their formats.
LEMMA Formed1 ==
  ASSUME NEW d \in Half \X Half, QUADRANT(d) = 1, COPCODE(d) # 4
  PROVE  Formed(d, Expansion(d))
<1> DEFINE c == COPCODE(d)
           e == Expansion(d)
<1>1. c = 0 \/ c = 1 \/ c = 2 \/ c = 3 \/ c = 5 \/ c = 6 \/ c = 7
  BY Fields
<1>2. QUADRANT(d) \in {0, 1, 2}
  OBVIOUS
<1>3. CASE c \in {0, 1, 2}
  <2> DEFINE row == <<5, x, x, x, x, x, 4, 3, 2, 1, 0>>
             at == <<11, 10, 9, 8, 7, 1>>
  <2>1. Inverse(at, row, 5) /\ DOMAIN row = 1 .. 11 /\ 11 \in 0 .. 31 /\ 11 > 5
    BY DEF Inverse, x
  <2>2. RvcRow(d) = row
    BY <1>3, Rows1
  <2> HIDE DEF row, at
  <2>3. BitsDrawn(d) /\ Steady(d, 11)
    BY <1>2, <2>1, <2>2, ShortRowOf, Zenon
  <2>4. {"addi", "addiw"} \subseteq ShortI /\ (c = 0 \/ c = 1 \/ c = 2)
    BY <1>3 DEF ShortI
  <2>5. \E t \in ShortI, r \in Reg, a \in Reg : Names(e, t, r, a, 0)
    BY <2>4, Names1, ShortRegisters, Zenon
  <2>6. QED
    BY <2>3, <2>5, NamedForms, ShortRegisters, Zenon
<1>4. CASE c = 3 /\ RC1(d) = 2
  <2> DEFINE row == <<9, x, x, x, x, x, 4, 6, 8, 7, 5>>
             at == <<0, 0, 0, 0, 7, 11, 8, 10, 9, 1>>
  <2>1. Inverse(at, row, 9) /\ DOMAIN row = 1 .. 11 /\ 11 \in 0 .. 31 /\ 11 > 9
    BY DEF Inverse, x
  <2>2. RvcRow(d) = row
    BY <1>4, Rows1
  <2> HIDE DEF row, at
  <2>3. BitsDrawn(d) /\ Steady(d, 11) /\ "addi" \in ShortI
    BY <1>2, <2>1, <2>2, ShortRowOf, Zenon DEF ShortI
  <2>4. Names(e, "addi", RC1(d), RC1(d), 0)
    BY <1>4, Names1, Zenon
  <2>5. QED
    BY <2>3, <2>4, NamedForms, ShortRegisters, Zenon
<1>5. CASE c = 3 /\ RC1(d) # 2
  <2> DEFINE row == <<17, x, x, x, x, x, 16, 15, 14, 13, 12>>
             at == <<0, 0, 0, 0, 0, 0, 0, 0, 0, 0, 0, 0, 11, 10, 9, 8, 7, 1>>
  <2>1. Inverse(at, row, 17) /\ DOMAIN row = 1 .. 11 /\ 12 \in 0 .. 17
    BY DEF Inverse, x
  <2>2. RvcRow(d) = row /\ \A k \in 0 .. (12 - 1) : at[k + 1] = 0
    BY <1>5, Rows1
  <2> HIDE DEF row, at
  <2>3. BitsDrawn(d) /\ Empty(d, 12)
    BY <1>2, <2>1, <2>2, ShortRowOf, Zenon
  <2>4. Names(e, "lui", RC1(d), 0, 0)
    BY <1>5, Names1, Zenon
  <2>5. QED
    BY <2>3, <2>4, NamedForms, ShortRegisters, Zenon
<1>6. CASE c = 5
  <2> DEFINE row == <<11, 4, 9, 8, 10, 6, 7, 3, 2, 1, 5>>
             at == <<0, 10, 9, 8, 2, 11, 6, 7, 4, 3, 5, 1>>
  <2>1. Inverse(at, row, 11) /\ DOMAIN row = 1 .. 11 /\ 20 \in 0 .. 31 /\ 20 > 11
        /\ 1 \in 0 .. 11
    BY DEF Inverse, x
  <2>2. RvcRow(d) = row /\ \A k \in 0 .. (1 - 1) : at[k + 1] = 0
    BY <1>6, Rows1
  <2> HIDE DEF row, at
  <2>3. BitsDrawn(d) /\ Steady(d, 20) /\ Empty(d, 1)
    BY <1>2, <2>1, <2>2, ShortRowOf, Zenon
  <2>4. Names(e, "jal", x0, 0, 0)
    BY <1>6, Names1, Zenon
  <2>5. QED
    BY <2>3, <2>4, NamedForms, ShortRegisters, Zenon
<1>7. CASE c \in {6, 7}
  <2> DEFINE row == <<8, 4, 3, x, x, x, 7, 6, 2, 1, 5>>
             at == <<0, 10, 9, 3, 2, 11, 8, 7, 1>>
  <2>1. Inverse(at, row, 8) /\ DOMAIN row = 1 .. 11 /\ 12 \in 0 .. 31 /\ 12 > 8
        /\ 1 \in 0 .. 8
    BY DEF Inverse, x
  <2>2. RvcRow(d) = row /\ \A k \in 0 .. (1 - 1) : at[k + 1] = 0
    BY <1>7, Rows1
  <2> HIDE DEF row, at
  <2>3. BitsDrawn(d) /\ Steady(d, 12) /\ Empty(d, 1)
    BY <1>2, <2>1, <2>2, ShortRowOf, Zenon
  <2>4. {"beq", "bne"} \subseteq ShortB /\ (c = 6 \/ c = 7)
    BY <1>7 DEF ShortB
  <2>5. \E t \in ShortB, a \in Reg : Names(e, t, 0, a, x0)
    BY <2>4, Names1, ShortRegisters, Zenon
  <2>6. QED
    BY <2>3, <2>5, NamedForms, ShortRegisters, Zenon
<1>8. QED
  BY <1>1, <1>3, <1>4, <1>5, <1>6, <1>7

\* Here the expansion is undefined where the code gives up.
LEMMA FormedAlu ==
  ASSUME NEW d \in Half \X Half, QUADRANT(d) = 1, COPCODE(d) = 4, CompressedAlu(d) # Illegal
  PROVE  Formed(d, Expansion(d))
<1> DEFINE e == Expansion(d)
           i == CompressedAlu(d)
<1>1. Means(i, e[1], e[2], e[3], e[4])
  BY ExpansionAlu, Zenon DEF Is
<1>2. QUADRANT(d) \in {0, 1, 2}
  OBVIOUS
<1> DEFINE p == RP1(d) + 8
           q == RP2(d) + 8
<1>3. CASE CFUNCT2HIGH(d) < 3
  <2> DEFINE row == <<5, x, x, x, x, x, 4, 3, 2, 1, 0>>
             at == <<11, 10, 9, 8, 7, 1>>
             t == Case(<<"srli", "srai", "andi">>, CFUNCT2HIGH(d))
             j == inst_cbtype_read2(d)
  <2>1. Inverse(at, row, 5) /\ DOMAIN row = 1 .. 11 /\ 11 \in 0 .. 31 /\ 11 > 5
    BY DEF Inverse, x
  <2>2. RvcRow(d) = row
    BY <1>3, Rows1
  <2> HIDE DEF row, at
  <2>3. BitsDrawn(d) /\ Steady(d, 11)
    BY <1>2, <2>1, <2>2, ShortRowOf, Zenon
  <2>4. i = [j EXCEPT !.type = t, !.rs1 = j.rd]
    BY <1>3, Zenon DEF CompressedAlu
  <2>5. Reads(j, p, 0, 0) /\ j.rd = p
    BY ShortReads, Zenon DEF Reads
  <2>6. t \in ShortI \/ t \in ShortShifts
    <3>1. CFUNCT2HIGH(d) = 0 \/ CFUNCT2HIGH(d) = 1 \/ CFUNCT2HIGH(d) = 2
      BY <1>3, Fields
    <3>2. QED
      BY <3>1 DEF Case, ShortI, ShortShifts
  <2> HIDE DEF j, t
  <2>7. Means(i, t, p, p, 0)
    <3>1. Means([j EXCEPT !.type = t, !.rs1 = j.rd], t, p, p, 0)
      BY <2>5, SetMeans, Zenon
    <3>2. QED
      BY <2>4, <3>1, Zenon
  <2>8. Names(e, t, p, p, 0)
    BY <1>1, <2>7, Zenon DEF Means, Reads, Names
  <2>9. QED
    BY <2>3, <2>6, <2>8, NamedForms, ShortRegisters, Zenon
<1>4. CASE ~(CFUNCT2HIGH(d) < 3)
  <2> DEFINE j == inst_catype_read(d)
             t == IF CFUNCT1(d) = 0
                  THEN Case(<<"sub", "xor", "or", "and">>, CFUNCT2LOW(d))
                  ELSE Case(<<"subw", "addw">>, CFUNCT2LOW(d))
  <2>1. CFUNCT2HIGH(d) = 3
    BY <1>4, Fields
  <2>2. BitsDrawn(d) /\ Empty(d, 32)
    BY <1>2, <2>1, Rows1, BlankShort, Zenon
  <2>3. i = Checked(t # "illegal", [j EXCEPT !.type = t, !.rs1 = j.rd])
    BY <1>4, Zenon DEF CompressedAlu
  <2>4. Reads(j, p, 0, q) /\ j.rd = p
    BY ShortReads, Zenon DEF Reads
  <2>5. t # "illegal" => t \in ShortR
    <3>1. /\ CFUNCT2LOW(d) = 0 \/ CFUNCT2LOW(d) = 1 \/ CFUNCT2LOW(d) = 2 \/ CFUNCT2LOW(d) = 3
      BY Fields
    <3>2. QED
      BY <3>1 DEF Case, ShortR
  <2> HIDE DEF j, t
  <2>6. t # "illegal" /\ i = [j EXCEPT !.type = t, !.rs1 = j.rd]
    BY <2>3, Zenon DEF Checked
  <2>7. Means(i, t, p, p, q)
    <3>1. Means([j EXCEPT !.type = t, !.rs1 = j.rd], t, p, p, q)
      BY <2>4, SetMeans, Zenon
    <3>2. QED
      BY <2>6, <3>1, Zenon
  <2>8. Names(e, t, p, p, q)
    BY <1>1, <2>7, Zenon DEF Means, Reads, Names
  <2>9. QED
    BY <2>2, <2>5, <2>6, <2>8, NamedForms, ShortRegisters, Zenon
<1>5. QED
  BY <1>3, <1>4

\* The expansions of quadrant 2 fit their formats.
LEMMA Formed2 ==
  ASSUME NEW d \in Half \X Half, QUADRANT(d) = 2
  PROVE  Formed(d, Expansion(d))
<1> DEFINE c == COPCODE(d)
           e == Expansion(d)
<1>1. c = 0 \/ c = 1 \/ c = 2 \/ c = 3 \/ c = 4 \/ c = 5 \/ c = 6 \/ c = 7
  BY Fields
<1>2. QUADRANT(d) \in {0, 1, 2}
  OBVIOUS
<1>3. ASSUME NEW at, NEW row, NEW h, Inverse(at, row, h), DOMAIN row = 1 .. 11, h < 11,
             RvcRow(d) = row
      PROVE  BitsDrawn(d) /\ Steady(d, 11)
  <2>1. 11 \in 0 .. 31 /\ 11 > h
    BY <1>3 DEF Inverse
  <2>2. QED
    BY <1>2, <1>3, <2>1, ShortRowOf, Zenon
<1>4. ASSUME c = 0 PROVE BitsDrawn(d)
  <2> DEFINE row == <<5, x, x, x, x, x, 4, 3, 2, 1, 0>>
             at == <<11, 10, 9, 8, 7, 1>>
  <2>1. Inverse(at, row, 5) /\ DOMAIN row = 1 .. 11 /\ 5 < 11
    BY DEF Inverse, x
  <2>2. RvcRow(d) = row
    BY <1>4, Rows2
  <2> HIDE DEF row, at
  <2>3. QED
    BY <1>3, <2>1, <2>2, Zenon
<1>5. ASSUME c \in {1, 3} PROVE BitsDrawn(d) /\ Steady(d, 11)
  <2> DEFINE row == <<5, x, x, x, x, x, 4, 3, 8, 7, 6>>
             at == <<0, 0, 0, 8, 7, 1, 11, 10, 9>>
  <2>1. Inverse(at, row, 8) /\ DOMAIN row = 1 .. 11 /\ 8 < 11
    BY DEF Inverse, x
  <2>2. RvcRow(d) = row
    BY <1>5, Rows2
  <2> HIDE DEF row, at
  <2>3. QED
    BY <1>3, <2>1, <2>2, Zenon
<1>6. ASSUME c = 2 PROVE BitsDrawn(d) /\ Steady(d, 11)
  <2> DEFINE row == <<5, x, x, x, x, x, 4, 3, 2, 7, 6>>
             at == <<0, 0, 9, 8, 7, 1, 11, 10>>
  <2>1. Inverse(at, row, 7) /\ DOMAIN row = 1 .. 11 /\ 7 < 11
    BY DEF Inverse, x
  <2>2. RvcRow(d) = row
    BY <1>6, Rows2
  <2> HIDE DEF row, at
  <2>3. QED
    BY <1>3, <2>1, <2>2, Zenon
<1>7. ASSUME c \in {5, 7} PROVE BitsDrawn(d) /\ Steady(d, 11)
  <2> DEFINE row == <<5, 4, 3, 8, 7, 6, x, x, x, x, x>>
             at == <<0, 0, 0, 3, 2, 1, 6, 5, 4>>
  <2>1. Inverse(at, row, 8) /\ DOMAIN row = 1 .. 11 /\ 8 < 11
    BY DEF Inverse, x
  <2>2. RvcRow(d) = row
    BY <1>7, Rows2
  <2> HIDE DEF row, at
  <2>3. QED
    BY <1>3, <2>1, <2>2, Zenon
<1>8. ASSUME c = 6 PROVE BitsDrawn(d) /\ Steady(d, 11)
  <2> DEFINE row == <<5, 4, 3, 2, 7, 6, x, x, x, x, x>>
             at == <<0, 0, 4, 3, 2, 1, 6, 5>>
  <2>1. Inverse(at, row, 7) /\ DOMAIN row = 1 .. 11 /\ 7 < 11
    BY DEF Inverse, x
  <2>2. RvcRow(d) = row
    BY <1>8, Rows2
  <2> HIDE DEF row, at
  <2>3. QED
    BY <1>3, <2>1, <2>2, Zenon
<1>9. CASE c = 0
  <2>1. Names(e, "slli", RC1(d), RC1(d), 0) /\ "slli" \in ShortShifts
    BY <1>9, Names2, Zenon DEF ShortShifts
  <2>2. QED
    BY <1>4, <1>9, <2>1, NamedForms, ShortRegisters, Zenon
<1>10. CASE c = 1 \/ c = 2 \/ c = 3
  <2>1. {"fld", "lw", "ld"} \subseteq ShortI
    BY DEF ShortI
  <2>2. \E t \in ShortI, r \in Reg : Names(e, t, r, sp, 0)
    BY <1>10, <2>1, Names2, ShortRegisters, Zenon
  <2>3. BitsDrawn(d) /\ Steady(d, 11)
    BY <1>5, <1>6, <1>10, Zenon
  <2>4. QED
    BY <2>2, <2>3, NamedForms, ShortRegisters, Zenon
<1>11. CASE c = 5 \/ c = 6 \/ c = 7
  <2>1. {"fsd", "sw", "sd"} \subseteq ShortS
    BY DEF ShortS
  <2>2. \E t \in ShortS, b \in Reg : Names(e, t, 0, sp, b)
    BY <1>11, <2>1, Names2, ShortRegisters, Zenon
  <2>3. BitsDrawn(d) /\ Steady(d, 11)
    BY <1>7, <1>8, <1>11, Zenon
  <2>4. QED
    BY <2>2, <2>3, NamedForms, ShortRegisters, Zenon
<1>12. CASE c = 4
  <2>1. BitsDrawn(d) /\ Empty(d, 32) /\ Steady(d, 11)
    BY <1>2, <1>12, Rows2, BlankShort, Zenon
  <2>2. /\ RC2(d) = 0 => Names(e, "jalr", CFUNCT1(d), RC1(d), RC2(d))
        /\ RC2(d) # 0 =>
             Names(e, "add", RC1(d), IF CFUNCT1(d) = 0 THEN x0 ELSE RC1(d), RC2(d))
    BY <1>12, SMT DEF Expansion, Names, RC1, RC2, CFUNCT1
  <2>3. "jalr" \in ShortI /\ "add" \in ShortR
    BY DEF ShortI, ShortR
  <2>4. CASE RC2(d) = 0
    BY <2>1, <2>2, <2>3, <2>4, NamedForms, ShortRegisters, Zenon
  <2>5. CASE RC2(d) # 0
    BY <2>1, <2>2, <2>3, <2>5, NamedForms, ShortRegisters, Zenon
  <2>6. QED
    BY <2>4, <2>5
<1>13. QED
  BY <1>1, <1>9, <1>10, <1>11, <1>12

-----------------------------------------------------------------------------
(* The fields of an expanded word.                                         *)

\* The field of n bits from bit lo up holds no bit of the immediate that the row draws.
Clear(row, lo, n) == \A k \in 0 .. (n - 1) : row[32 - (lo + k)] = x

\* A row for bits 31 to 7, and the opcode, funct3 and funct7.
InPlace(row) == \A j \in 1 .. 25 : row[j] = x \/ row[j] \in 0 .. 31
Encoded(c) == c[1] \in 0 .. 31 /\ c[2] \in 0 .. 7 /\ c[3] \in 0 .. 127

\* The digits of a number are bits.
LEMMA DigitRange ==
  ASSUME NEW v \in Int, NEW k \in 0 .. 31
  PROVE  Digit(v, k) \in Bit
<1>1. PICK p \in Nat \ {0} : p = 2^k
  BY Powers, Zenon
<1>2. (v \div p) % 2 \in Bit
  BY DEF Bit
<1>3. QED
  BY <1>1, <1>2, Zenon DEF Digit

\* Bit b of the encoding c of e with its immediate in the row.
Assembled(d, e, row, c, b) ==
  /\ b \in 0 .. 1 => ExpandBit(d, e, b) = 1
  /\ b \in 2 .. 6 => ExpandBit(d, e, b) = Digit(c[1], b - 2)
  /\ b \in 7 .. 31 /\ row[32 - b] # x => ExpandBit(d, e, b) = RvcBit(d, row[32 - b])
  /\ b \in 7 .. 11 /\ row[32 - b] = x => ExpandBit(d, e, b) = Digit(e[2], b - 7)
  /\ b \in 12 .. 14 /\ row[32 - b] = x => ExpandBit(d, e, b) = Digit(c[2], b - 12)
  /\ b \in 15 .. 19 /\ row[32 - b] = x => ExpandBit(d, e, b) = Digit(e[3], b - 15)
  /\ b \in 20 .. 24 /\ row[32 - b] = x => ExpandBit(d, e, b) = Digit(e[4], b - 20)
  /\ b \in 25 .. 31 /\ row[32 - b] = x => ExpandBit(d, e, b) = Digit(c[3], b - 25)

\* Bit b of the expanded word is the one assembled.
LEMMA ExpandedBit ==
  ASSUME NEW d, NEW e, NEW row, row = LongRow(e[1]), NEW c, c = Encoding[e[1]], NEW b \in 0 .. 31
  PROVE  Assembled(d, e, row, c, b)
BY SMT DEF ExpandBit, Digit, Assembled

\* The word w holds, where the row draws them, the bits of the immediate of d.
Carries(w, d, row) ==
  \A b \in 7 .. 31 : row[32 - b] # x => Bits(w, b, 1) = RvcBit(d, row[32 - b])

\* The word w encodes e with the immediate of d, in the fields that its row leaves.
Holds(w, d, e, row, c) ==
  /\ w \in Half \X Half /\ QUADRANT(w) = 3 /\ OPCODE(w) = c[1]
  /\ Carries(w, d, row)
  /\ Clear(row, 7, 5) => RD(w) = e[2]
  /\ Clear(row, 12, 3) => FUNCT3(w) = c[2]
  /\ Clear(row, 15, 5) => RS1(w) = e[3]
  /\ Clear(row, 20, 5) => RS2(w) = e[4]
  /\ Clear(row, 25, 7) => FUNCT7(w) = c[3]
  /\ Clear(row, 26, 6) => IMM116(w) = c[3] \div 2

\* The expanded word holds its encoding, field by field.
LEMMA ExpandedAs ==
  ASSUME NEW d, NEW e, e = Expansion(d), BitsDrawn(d), Registers(e),
         NEW row, row = LongRow(e[1]), InPlace(row), NEW c, c = Encoding[e[1]], Encoded(c)
  PROVE  Holds(Expand(d), d, e, row, c)
<1> DEFINE w == Expand(d)
<1>1. /\ e[2] \in Int /\ e[3] \in Int /\ e[4] \in Int
      /\ c[1] \in Int /\ c[2] \in Int /\ c[3] \in Int /\ 1 \in Bit
  BY DEF Registers, Reg, Encoded, Bit
<1>2. \A b \in 0 .. 31 : Assembled(d, e, row, c, b)
  BY ExpandedBit, Zenon
<1>3. ASSUME NEW b \in 0 .. 31 PROVE ExpandBit(d, e, b) \in Bit
  <2>1. CASE b \in 7 .. 31 /\ row[32 - b] # x
    <3>1. 32 - b \in 1 .. 25
      BY <2>1
    <3>2. row[32 - b] \in 0 .. 31
      BY <2>1, <3>1, Zenon DEF InPlace
    <3>3. QED
      BY <1>2, <2>1, <3>2, Zenon DEF Assembled, BitsDrawn
  <2>2. CASE b \in 0 .. 1
    BY <1>2, <1>1, <2>2, Zenon DEF Assembled
  <2>3. CASE b \in 2 .. 6
    <3>1. PICK k \in 0 .. 31 : k = b - 2
      BY <2>3
    <3>2. QED
      BY <1>2, <1>1, <2>3, <3>1, DigitRange, Zenon DEF Assembled
  <2>4. CASE b \in 7 .. 11 /\ row[32 - b] = x
    <3>1. PICK k \in 0 .. 31 : k = b - 7
      BY <2>4
    <3>2. QED
      BY <1>2, <1>1, <2>4, <3>1, DigitRange, Zenon DEF Assembled
  <2>5. CASE b \in 12 .. 14 /\ row[32 - b] = x
    <3>1. PICK k \in 0 .. 31 : k = b - 12
      BY <2>5
    <3>2. QED
      BY <1>2, <1>1, <2>5, <3>1, DigitRange, Zenon DEF Assembled
  <2>6. CASE b \in 15 .. 19 /\ row[32 - b] = x
    <3>1. PICK k \in 0 .. 31 : k = b - 15
      BY <2>6
    <3>2. QED
      BY <1>2, <1>1, <2>6, <3>1, DigitRange, Zenon DEF Assembled
  <2>7. CASE b \in 20 .. 24 /\ row[32 - b] = x
    <3>1. PICK k \in 0 .. 31 : k = b - 20
      BY <2>7
    <3>2. QED
      BY <1>2, <1>1, <2>7, <3>1, DigitRange, Zenon DEF Assembled
  <2>8. CASE b \in 25 .. 31 /\ row[32 - b] = x
    <3>1. PICK k \in 0 .. 31 : k = b - 25
      BY <2>8
    <3>2. QED
      BY <1>2, <1>1, <2>8, <3>1, DigitRange, Zenon DEF Assembled
  <2>9. \/ b \in 0 .. 1 \/ b \in 2 .. 6 \/ b \in 7 .. 11 \/ b \in 12 .. 14 \/ b \in 15 .. 19
        \/ b \in 20 .. 24 \/ b \in 25 .. 31
    OBVIOUS
  <2>10. b \in 7 .. 31 \/ b \in 0 .. 1 \/ b \in 2 .. 6
    OBVIOUS
  <2>11. QED
    BY <2>1, <2>2, <2>3, <2>4, <2>5, <2>6, <2>7, <2>8, <2>9, <2>10, Zenon
<1>4. w \in Half \X Half /\ \A b \in 0 .. 31 : Bits(w, b, 1) = ExpandBit(d, e, b)
  BY <1>3, ExpandedBits, Zenon
<1> HIDE DEF w
<1>5. ASSUME NEW lo \in 0 .. 31, NEW n \in 1 .. 32, lo + n <= 32, NEW v \in Int, 0 <= v, v < 2^n,
             \A k \in 0 .. (n - 1) : ExpandBit(d, e, lo + k) = Digit(v, k)
      PROVE  Bits(w, lo, n) = v
  <2>1. \A k \in 0 .. (n - 1) : lo + k \in 0 .. 31
    BY <1>5
  <2>2. \A k \in 0 .. (n - 1) : Bits(w, lo + k, 1) = Digit(v, k)
    BY <1>4, <1>5, <2>1, Zenon
  <2>3. v \in Nat
    BY <1>5
  <2>4. QED
    BY <1>4, <1>5, <2>2, <2>3, FieldIs, Zenon
<1>6. QUADRANT(w) = 3
  <2>1. ASSUME NEW k \in 0 .. (2 - 1) PROVE ExpandBit(d, e, 0 + k) = Digit(3, k)
    <3>1. Digit(3, k) = 1 /\ 0 + k \in 0 .. 31 /\ 0 + k \in 0 .. 1
      <4>1. k = 0 \/ k = 1
        OBVIOUS
      <4>2. 2^0 = 1 /\ 2^1 = 2 /\ (3 \div 1) % 2 = 1 /\ (3 \div 2) % 2 = 1
        OBVIOUS
      <4>3. Digit(3, k) = 1
        BY <4>1, <4>2, Zenon DEF Digit
      <4>4. QED
        BY <4>3
    <3>2. QED
      BY <1>2, <3>1, Zenon DEF Assembled
  <2>2. 0 \in 0 .. 31 /\ 2 \in 1 .. 32 /\ 0 + 2 <= 32 /\ 3 \in Int /\ 0 <= 3 /\ 3 < 2^2
    OBVIOUS
  <2>3. QED
    BY <1>5, <2>1, <2>2, Zenon DEF QUADRANT
<1>7. OPCODE(w) = c[1]
  <2>1. ASSUME NEW k \in 0 .. (5 - 1) PROVE ExpandBit(d, e, 2 + k) = Digit(c[1], k)
    <3>1. PICK b \in 0 .. 31 : b = 2 + k /\ b \in 2 .. 6 /\ b - 2 = k
      OBVIOUS
    <3>2. QED
      BY <1>2, <3>1, Zenon DEF Assembled
  <2>2. 2 \in 0 .. 31 /\ 5 \in 1 .. 32 /\ 2 + 5 <= 32 /\ 0 <= c[1] /\ c[1] < 2^5
    BY DEF Encoded
  <2>3. QED
    BY <1>1, <1>5, <2>1, <2>2, Zenon DEF OPCODE
<1>8. ASSUME NEW b \in 7 .. 31, row[32 - b] # x PROVE Bits(w, b, 1) = RvcBit(d, row[32 - b])
  <2>1. b \in 0 .. 31
    OBVIOUS
  <2>2. QED
    BY <1>2, <1>4, <1>8, <2>1, Zenon DEF Assembled
<1>9. ASSUME Clear(row, 7, 5) PROVE RD(w) = e[2]
  <2>1. ASSUME NEW k \in 0 .. (5 - 1) PROVE ExpandBit(d, e, 7 + k) = Digit(e[2], k)
    <3>1. PICK b \in 0 .. 31 : b = 7 + k /\ b \in 7 .. 11 /\ b - 7 = k
      OBVIOUS
    <3>2. row[32 - b] = x
      BY <1>9, <3>1, Zenon DEF Clear
    <3>3. QED
      BY <1>2, <3>1, <3>2, Zenon DEF Assembled
  <2>2. 7 \in 0 .. 31 /\ 5 \in 1 .. 32 /\ 7 + 5 <= 32 /\ 0 <= e[2] /\ e[2] < 2^5
    BY DEF Registers, Reg
  <2>3. QED
    BY <1>1, <1>5, <2>1, <2>2, Zenon DEF RD
<1>10. ASSUME Clear(row, 12, 3) PROVE FUNCT3(w) = c[2]
  <2>1. ASSUME NEW k \in 0 .. (3 - 1) PROVE ExpandBit(d, e, 12 + k) = Digit(c[2], k)
    <3>1. PICK b \in 0 .. 31 : b = 12 + k /\ b \in 12 .. 14 /\ b - 12 = k
      OBVIOUS
    <3>2. row[32 - b] = x
      BY <1>10, <3>1, Zenon DEF Clear
    <3>3. QED
      BY <1>2, <3>1, <3>2, Zenon DEF Assembled
  <2>2. 12 \in 0 .. 31 /\ 3 \in 1 .. 32 /\ 12 + 3 <= 32 /\ 0 <= c[2] /\ c[2] < 2^3
    BY DEF Encoded
  <2>3. QED
    BY <1>1, <1>5, <2>1, <2>2, Zenon DEF FUNCT3
<1>11. ASSUME Clear(row, 15, 5) PROVE RS1(w) = e[3]
  <2>1. ASSUME NEW k \in 0 .. (5 - 1) PROVE ExpandBit(d, e, 15 + k) = Digit(e[3], k)
    <3>1. PICK b \in 0 .. 31 : b = 15 + k /\ b \in 15 .. 19 /\ b - 15 = k
      OBVIOUS
    <3>2. row[32 - b] = x
      BY <1>11, <3>1, Zenon DEF Clear
    <3>3. QED
      BY <1>2, <3>1, <3>2, Zenon DEF Assembled
  <2>2. 15 \in 0 .. 31 /\ 5 \in 1 .. 32 /\ 15 + 5 <= 32 /\ 0 <= e[3] /\ e[3] < 2^5
    BY DEF Registers, Reg
  <2>3. QED
    BY <1>1, <1>5, <2>1, <2>2, Zenon DEF RS1
<1>12. ASSUME Clear(row, 20, 5) PROVE RS2(w) = e[4]
  <2>1. ASSUME NEW k \in 0 .. (5 - 1) PROVE ExpandBit(d, e, 20 + k) = Digit(e[4], k)
    <3>1. PICK b \in 0 .. 31 : b = 20 + k /\ b \in 20 .. 24 /\ b - 20 = k
      OBVIOUS
    <3>2. row[32 - b] = x
      BY <1>12, <3>1, Zenon DEF Clear
    <3>3. QED
      BY <1>2, <3>1, <3>2, Zenon DEF Assembled
  <2>2. 20 \in 0 .. 31 /\ 5 \in 1 .. 32 /\ 20 + 5 <= 32 /\ 0 <= e[4] /\ e[4] < 2^5
    BY DEF Registers, Reg
  <2>3. QED
    BY <1>1, <1>5, <2>1, <2>2, Zenon DEF RS2
<1>13. ASSUME Clear(row, 25, 7) PROVE FUNCT7(w) = c[3]
  <2>1. ASSUME NEW k \in 0 .. (7 - 1) PROVE ExpandBit(d, e, 25 + k) = Digit(c[3], k)
    <3>1. PICK b \in 0 .. 31 : b = 25 + k /\ b \in 25 .. 31 /\ b - 25 = k
      OBVIOUS
    <3>2. row[32 - b] = x
      BY <1>13, <3>1, Zenon DEF Clear
    <3>3. QED
      BY <1>2, <3>1, <3>2, Zenon DEF Assembled
  <2>2. 25 \in 0 .. 31 /\ 7 \in 1 .. 32 /\ 25 + 7 <= 32 /\ 0 <= c[3] /\ c[3] < 2^7
    BY DEF Encoded
  <2>3. QED
    BY <1>1, <1>5, <2>1, <2>2, Zenon DEF FUNCT7
<1>14. ASSUME Clear(row, 26, 6) PROVE IMM116(w) = c[3] \div 2
  <2>1. ASSUME NEW k \in 0 .. (6 - 1) PROVE ExpandBit(d, e, 26 + k) = Digit(c[3] \div 2, k)
    <3>1. PICK b \in 0 .. 31 : b = 26 + k /\ b \in 25 .. 31 /\ b - 25 = k + 1
      OBVIOUS
    <3>2. row[32 - b] = x
      BY <1>14, <3>1, Zenon DEF Clear
    <3>3. k \in 0 .. 30
      OBVIOUS
    <3>4. Digit(c[3], k + 1) = Digit(c[3] \div 2, k)
      BY <1>1, <3>3, HalfDigit, Zenon
    <3>5. QED
      BY <1>2, <3>1, <3>2, <3>4, Zenon DEF Assembled
  <2>2. 26 \in 0 .. 31 /\ 6 \in 1 .. 32 /\ 26 + 6 <= 32 /\ 0 <= c[3] \div 2 /\ c[3] \div 2 < 2^6
        /\ c[3] \div 2 \in Int
    BY DEF Encoded
  <2>3. QED
    BY <1>5, <2>1, <2>2, Zenon DEF IMM116
<1>15. QED
  BY <1>4, <1>6, <1>7, <1>8, <1>9, <1>10, <1>11, <1>12, <1>13, <1>14, Zenon DEF w, Holds, Carries

-----------------------------------------------------------------------------
(* What decode_inst makes of the fields of a long word.                    *)

\* The registers that the readers of 32-bit instructions fill in.
LEMMA LongReads ==
  ASSUME NEW d
  PROVE  /\ Reads(inst_itype_read(d), RD(d), RS1(d), 0)
         /\ Reads(inst_stype_read(d), 0, RS1(d), RS2(d))
         /\ Reads(inst_btype_read(d), 0, RS1(d), RS2(d))
         /\ Reads(inst_rtype_read(d), RD(d), RS1(d), RS2(d))
         /\ Reads(inst_utype_read(d), RD(d), 0, 0)
         /\ Reads(inst_jtype_read(d), RD(d), 0, 0)
<1>1. Reads(Cleared, 0, 0, 0)
  BY Zenon DEF Reads, Cleared, Keys
<1>2. ASSUME NEW i, Reads(i, 0, 0, 0), NEW v, NEW r, NEW a, NEW b
      PROVE  /\ Reads([i EXCEPT !.imm = v, !.rs1 = a, !.rd = r], r, a, 0)
             /\ Reads([i EXCEPT !.imm = v, !.rs1 = a, !.rs2 = b], 0, a, b)
             /\ Reads([i EXCEPT !.rs1 = a, !.rs2 = b, !.rd = r], r, a, b)
             /\ Reads([i EXCEPT !.imm = v, !.rd = r], r, 0, 0)
  BY <1>2, Zenon DEF Reads, Keys
<1> HIDE DEF Cleared
<1>3. QED
  BY <1>1, <1>2, ZenonT(60)
     DEF inst_itype_read, inst_stype_read, inst_btype_read, inst_rtype_read, inst_utype_read,
         inst_jtype_read

\* Setting the type of what a long reader returns.
LEMMA TypedMeans ==
  ASSUME NEW i, NEW r, NEW a, NEW b, Reads(i, r, a, b), NEW t, t # "illegal"
  PROVE  Means(Typed(t, i), t, r, a, b)
<1>1. Typed(t, i) = [i EXCEPT !.type = t]
  BY Zenon DEF Typed, Checked
<1>2. Means([i EXCEPT !.type = t], t, r, a, b)
  BY SetMeans, Zenon
<1>3. QED
  BY <1>1, <1>2, Zenon

\* The arms of the switch over the opcode.
LEMMA OpcodeArms ==
  ASSUME NEW d
  PROVE  /\ OPCODE(d) = 0 =>
              Opcodes(d) = Typed(Case(<<"lb", "lh", "lw", "ld", "lbu", "lhu", "lwu">>, FUNCT3(d)),
                                 inst_itype_read(d))
         /\ OPCODE(d) = 1 =>
              Opcodes(d) = Typed(Case(<<"illegal", "illegal", "flw", "fld">>, FUNCT3(d)),
                                 inst_itype_read(d))
         /\ OPCODE(d) = 4 => Opcodes(d) = Typed(ImmediateType(d), inst_itype_read(d))
         /\ OPCODE(d) = 6 => Opcodes(d) = Typed(ImmediateWType(d), inst_itype_read(d))
         /\ OPCODE(d) = 8 =>
              Opcodes(d) = Typed(Case(<<"sb", "sh", "sw", "sd">>, FUNCT3(d)), inst_stype_read(d))
         /\ OPCODE(d) = 9 =>
              Opcodes(d) = Typed(Case(<<"illegal", "illegal", "fsw", "fsd">>, FUNCT3(d)),
                                 inst_stype_read(d))
         /\ OPCODE(d) = 12 => Opcodes(d) = Typed(RegisterType(d), inst_rtype_read(d))
         /\ OPCODE(d) = 13 => Opcodes(d) = Typed("lui", inst_utype_read(d))
         /\ OPCODE(d) = 14 => Opcodes(d) = Typed(RegisterWType(d), inst_rtype_read(d))
         /\ OPCODE(d) = 24 =>
              Opcodes(d) = Typed(Case(<<"beq", "bne", "illegal", "illegal", "blt", "bge",
                                        "bltu", "bgeu">>, FUNCT3(d)), inst_btype_read(d))
         /\ OPCODE(d) = 25 =>
              Opcodes(d) = [inst_itype_read(d) EXCEPT !.type = "jalr", !.continue_exec = TRUE]
         /\ OPCODE(d) = 27 =>
              Opcodes(d) = [inst_jtype_read(d) EXCEPT !.type = "jal", !.continue_exec = TRUE]
<1> DEFINE op == OPCODE(d)
<1>1. op = 0 =>
        Opcodes(d) =
          Typed(Case(<<"lb", "lh", "lw", "ld", "lbu", "lhu", "lwu">>, FUNCT3(d)),
                inst_itype_read(d))
  <2>1. op = 0 =>
             /\ op # 1 /\ op # 3 /\ op # 4 /\ op # 5 /\ op # 6 /\ op # 8 /\ op # 9 /\ op # 12
             /\ op # 13 /\ op # 14 /\ op \notin 16 .. 19 /\ op # 20 /\ op # 24 /\ op # 25
             /\ op # 27 /\ op # 28
    OBVIOUS
  <2>2. QED
    BY <2>1, Zenon DEF Opcodes
<1>2. op = 1 =>
        Opcodes(d) =
          Typed(Case(<<"illegal", "illegal", "flw", "fld">>, FUNCT3(d)), inst_itype_read(d))
  <2>1. op = 1 =>
             /\ op # 0 /\ op # 3 /\ op # 4 /\ op # 5 /\ op # 6 /\ op # 8 /\ op # 9 /\ op # 12
             /\ op # 13 /\ op # 14 /\ op \notin 16 .. 19 /\ op # 20 /\ op # 24 /\ op # 25
             /\ op # 27 /\ op # 28
    OBVIOUS
  <2>2. QED
    BY <2>1, Zenon DEF Opcodes
<1>3. op = 4 =>
        Opcodes(d) =
          Typed(ImmediateType(d), inst_itype_read(d))
  <2>1. op = 4 =>
             /\ op # 0 /\ op # 1 /\ op # 3 /\ op # 5 /\ op # 6 /\ op # 8 /\ op # 9 /\ op # 12
             /\ op # 13 /\ op # 14 /\ op \notin 16 .. 19 /\ op # 20 /\ op # 24 /\ op # 25
             /\ op # 27 /\ op # 28
    OBVIOUS
  <2>2. QED
    BY <2>1, Zenon DEF Opcodes
<1>4. op = 6 =>
        Opcodes(d) =
          Typed(ImmediateWType(d), inst_itype_read(d))
  <2>1. op = 6 =>
             /\ op # 0 /\ op # 1 /\ op # 3 /\ op # 4 /\ op # 5 /\ op # 8 /\ op # 9 /\ op # 12
             /\ op # 13 /\ op # 14 /\ op \notin 16 .. 19 /\ op # 20 /\ op # 24 /\ op # 25
             /\ op # 27 /\ op # 28
    OBVIOUS
  <2>2. QED
    BY <2>1, Zenon DEF Opcodes
<1>5. op = 8 =>
        Opcodes(d) =
          Typed(Case(<<"sb", "sh", "sw", "sd">>, FUNCT3(d)), inst_stype_read(d))
  <2>1. op = 8 =>
             /\ op # 0 /\ op # 1 /\ op # 3 /\ op # 4 /\ op # 5 /\ op # 6 /\ op # 9 /\ op # 12
             /\ op # 13 /\ op # 14 /\ op \notin 16 .. 19 /\ op # 20 /\ op # 24 /\ op # 25
             /\ op # 27 /\ op # 28
    OBVIOUS
  <2>2. QED
    BY <2>1, Zenon DEF Opcodes
<1>6. op = 9 =>
        Opcodes(d) =
          Typed(Case(<<"illegal", "illegal", "fsw", "fsd">>, FUNCT3(d)), inst_stype_read(d))
  <2>1. op = 9 =>
             /\ op # 0 /\ op # 1 /\ op # 3 /\ op # 4 /\ op # 5 /\ op # 6 /\ op # 8 /\ op # 12
             /\ op # 13 /\ op # 14 /\ op \notin 16 .. 19 /\ op # 20 /\ op # 24 /\ op # 25
             /\ op # 27 /\ op # 28
    OBVIOUS
  <2>2. QED
    BY <2>1, Zenon DEF Opcodes
<1>7. op = 12 =>
        Opcodes(d) =
          Typed(RegisterType(d), inst_rtype_read(d))
  <2>1. op = 12 =>
             /\ op # 0 /\ op # 1 /\ op # 3 /\ op # 4 /\ op # 5 /\ op # 6 /\ op # 8 /\ op # 9
             /\ op # 13 /\ op # 14 /\ op \notin 16 .. 19 /\ op # 20 /\ op # 24 /\ op # 25
             /\ op # 27 /\ op # 28
    OBVIOUS
  <2>2. QED
    BY <2>1, Zenon DEF Opcodes
<1>8. op = 13 =>
        Opcodes(d) =
          Typed("lui", inst_utype_read(d))
  <2>1. op = 13 =>
             /\ op # 0 /\ op # 1 /\ op # 3 /\ op # 4 /\ op # 5 /\ op # 6 /\ op # 8 /\ op # 9
             /\ op # 12 /\ op # 14 /\ op \notin 16 .. 19 /\ op # 20 /\ op # 24 /\ op # 25
             /\ op # 27 /\ op # 28
    OBVIOUS
  <2>2. QED
    BY <2>1, Zenon DEF Opcodes
<1>9. op = 14 =>
        Opcodes(d) =
          Typed(RegisterWType(d), inst_rtype_read(d))
  <2>1. op = 14 =>
             /\ op # 0 /\ op # 1 /\ op # 3 /\ op # 4 /\ op # 5 /\ op # 6 /\ op # 8 /\ op # 9
             /\ op # 12 /\ op # 13 /\ op \notin 16 .. 19 /\ op # 20 /\ op # 24 /\ op # 25
             /\ op # 27 /\ op # 28
    OBVIOUS
  <2>2. QED
    BY <2>1, Zenon DEF Opcodes
<1>10. op = 24 =>
        Opcodes(d) =
          Typed(Case(<<"beq", "bne", "illegal", "illegal", "blt", "bge", "bltu", "bgeu">>,
                     FUNCT3(d)), inst_btype_read(d))
  <2>1. op = 24 =>
             /\ op # 0 /\ op # 1 /\ op # 3 /\ op # 4 /\ op # 5 /\ op # 6 /\ op # 8 /\ op # 9
             /\ op # 12 /\ op # 13 /\ op # 14 /\ op \notin 16 .. 19 /\ op # 20 /\ op # 25
             /\ op # 27 /\ op # 28
    OBVIOUS
  <2>2. QED
    BY <2>1, Zenon DEF Opcodes
<1>11. op = 25 =>
        Opcodes(d) =
          [inst_itype_read(d) EXCEPT !.type = "jalr", !.continue_exec = TRUE]
  <2>1. op = 25 =>
             /\ op # 0 /\ op # 1 /\ op # 3 /\ op # 4 /\ op # 5 /\ op # 6 /\ op # 8 /\ op # 9
             /\ op # 12 /\ op # 13 /\ op # 14 /\ op \notin 16 .. 19 /\ op # 20 /\ op # 24
             /\ op # 27 /\ op # 28
    OBVIOUS
  <2>2. QED
    BY <2>1, Zenon DEF Opcodes
<1>12. op = 27 =>
        Opcodes(d) =
          [inst_jtype_read(d) EXCEPT !.type = "jal", !.continue_exec = TRUE]
  <2>1. op = 27 =>
             /\ op # 0 /\ op # 1 /\ op # 3 /\ op # 4 /\ op # 5 /\ op # 6 /\ op # 8 /\ op # 9
             /\ op # 12 /\ op # 13 /\ op # 14 /\ op \notin 16 .. 19 /\ op # 20 /\ op # 24
             /\ op # 25 /\ op # 28
    OBVIOUS
  <2>2. QED
    BY <2>1, Zenon DEF Opcodes
<1>13. QED
  BY <1>1, <1>2, <1>3, <1>4, <1>5, <1>6, <1>7, <1>8, <1>9, <1>10, <1>11, <1>12

\* The fields of the word w that hold the encoding c, as far as the format has them.
LEMMA MeantI ==
  ASSUME NEW w \in Half \X Half, NEW t \in ShortI, NEW c, c = Encoding[t],
         OPCODE(w) = c[1], FUNCT3(w) = c[2]
  PROVE  Means(Opcodes(w), t, RD(w), RS1(w), 0)
<1> DEFINE no == "illegal"
<1>1. CASE t = "jalr"
  <2>1. OPCODE(w) = 25
    BY <1>1 DEF Encoding
  <2>2. Means([inst_itype_read(w) EXCEPT !.type = "jalr", !.continue_exec = TRUE],
              "jalr", RD(w), RS1(w), 0)
    BY LongReads, SetMeans, Zenon
  <2>3. QED
    BY <1>1, <2>1, <2>2, OpcodeArms, Zenon
<1>2. CASE t \in {"lw", "ld", "fld"}
  <2>1. \/ OPCODE(w) = 0 /\ Case(<<"lb", "lh", "lw", "ld", "lbu", "lhu", "lwu">>, FUNCT3(w)) = t
        \/ OPCODE(w) = 1 /\ Case(<<no, no, "flw", "fld">>, FUNCT3(w)) = t
    BY <1>2 DEF Encoding, Case
  <2>2. Opcodes(w) = Typed(t, inst_itype_read(w))
    BY <2>1, OpcodeArms
  <2>3. t # "illegal"
    BY <1>2
  <2>4. QED
    BY <2>2, <2>3, LongReads, TypedMeans, Zenon
<1>3. CASE t \in {"addi", "andi"}
  <2>1. OPCODE(w) = 4 /\ t # "illegal" /\ ImmediateType(w) = t
    BY <1>3 DEF Encoding, Case, ImmediateType
  <2>2. Opcodes(w) = Typed(t, inst_itype_read(w))
    BY <2>1, OpcodeArms, Zenon
  <2>3. QED
    BY <2>1, <2>2, LongReads, TypedMeans, Zenon
<1>4. CASE t = "addiw"
  <2>1. OPCODE(w) = 6 /\ t # "illegal" /\ FUNCT3(w) = 0 /\ FUNCT3(w) # 1 /\ FUNCT3(w) # 5
    BY <1>4 DEF Encoding
  <2>2. ImmediateWType(w) = t
    BY <1>4, <2>1, Zenon DEF ImmediateWType
  <2>3. Opcodes(w) = Typed(t, inst_itype_read(w))
    BY <2>1, <2>2, OpcodeArms, Zenon
  <2>4. QED
    BY <2>1, <2>3, LongReads, TypedMeans, Zenon
<1>5. QED
  BY <1>1, <1>2, <1>3, <1>4 DEF ShortI

LEMMA MeantShift ==
  ASSUME NEW w \in Half \X Half, NEW t \in ShortShifts, NEW c, c = Encoding[t],
         OPCODE(w) = c[1], FUNCT3(w) = c[2], IMM116(w) = c[3] \div 2
  PROVE  Means(Opcodes(w), t, RD(w), RS1(w), 0)
<1>1. OPCODE(w) = 4 /\ t # "illegal"
  BY DEF Encoding, ShortShifts
<1>2. /\ t = "slli" => FUNCT3(w) = 1 /\ IMM116(w) = 0
      /\ t = "srli" => FUNCT3(w) = 5 /\ IMM116(w) = 0
      /\ t = "srai" => FUNCT3(w) = 5 /\ IMM116(w) = 16
  BY DEF Encoding
<1>3. ImmediateType(w) = t
  BY <1>2 DEF Case, ImmediateType, ShortShifts
<1>4. Opcodes(w) = Typed(t, inst_itype_read(w))
  BY <1>1, <1>3, OpcodeArms, Zenon
<1>5. QED
  BY <1>1, <1>4, LongReads, TypedMeans, Zenon

LEMMA MeantS ==
  ASSUME NEW w \in Half \X Half, NEW t \in ShortS, NEW c, c = Encoding[t],
         OPCODE(w) = c[1], FUNCT3(w) = c[2]
  PROVE  Means(Opcodes(w), t, 0, RS1(w), RS2(w))
<1> DEFINE no == "illegal"
<1>1. t # "illegal"
  BY DEF ShortS
<1>2. \/ OPCODE(w) = 8 /\ Case(<<"sb", "sh", "sw", "sd">>, FUNCT3(w)) = t
      \/ OPCODE(w) = 9 /\ Case(<<no, no, "fsw", "fsd">>, FUNCT3(w)) = t
  BY DEF Encoding, Case, ShortS
<1>3. Opcodes(w) = Typed(t, inst_stype_read(w))
  BY <1>2, OpcodeArms, Zenon
<1>4. QED
  BY <1>1, <1>3, LongReads, TypedMeans, Zenon

LEMMA MeantB ==
  ASSUME NEW w \in Half \X Half, NEW t \in ShortB, NEW c, c = Encoding[t],
         OPCODE(w) = c[1], FUNCT3(w) = c[2]
  PROVE  Means(Opcodes(w), t, 0, RS1(w), RS2(w))
<1> DEFINE no == "illegal"
<1>1. t # "illegal"
  BY DEF ShortB
<1>2. /\ OPCODE(w) = 24
      /\ Case(<<"beq", "bne", no, no, "blt", "bge", "bltu", "bgeu">>, FUNCT3(w)) = t
  BY DEF Encoding, Case, ShortB
<1>3. Opcodes(w) = Typed(t, inst_btype_read(w))
  BY <1>2, OpcodeArms, Zenon
<1>4. QED
  BY <1>1, <1>3, LongReads, TypedMeans, Zenon

LEMMA MeantUJ ==
  ASSUME NEW w \in Half \X Half, NEW t \in {"lui", "jal"}, NEW c, c = Encoding[t], OPCODE(w) = c[1]
  PROVE  Means(Opcodes(w), t, RD(w), 0, 0)
<1>1. CASE t = "lui"
  <2>1. OPCODE(w) = 13 /\ "lui" # "illegal"
    BY <1>1 DEF Encoding
  <2>2. Means(Typed("lui", inst_utype_read(w)), "lui", RD(w), 0, 0)
    BY <2>1, LongReads, TypedMeans, Zenon
  <2>3. QED
    BY <1>1, <2>1, <2>2, OpcodeArms, Zenon
<1>2. CASE t = "jal"
  <2>1. OPCODE(w) = 27
    BY <1>2 DEF Encoding
  <2>2. Means([inst_jtype_read(w) EXCEPT !.type = "jal", !.continue_exec = TRUE],
              "jal", RD(w), 0, 0)
    BY LongReads, SetMeans, Zenon
  <2>3. QED
    BY <1>2, <2>1, <2>2, OpcodeArms, Zenon
<1>3. QED
  BY <1>1, <1>2

LEMMA MeantR ==
  ASSUME NEW w \in Half \X Half, NEW t \in ShortR, NEW c, c = Encoding[t],
         OPCODE(w) = c[1], FUNCT3(w) = c[2], FUNCT7(w) = c[3]
  PROVE  Means(Opcodes(w), t, RD(w), RS1(w), RS2(w))
<1> DEFINE no == "illegal"
           f3 == FUNCT3(w)
           f7 == FUNCT7(w)
<1>1. CASE t \in {"add", "sub", "xor", "or", "and"}
  <2>1. OPCODE(w) = 12 /\ t # "illegal"
    BY <1>1 DEF Encoding
  <2>2. \/ /\ f7 = 0 /\ f7 # 1 /\ f7 # 32
           /\ Case(<<"add", "sll", "slt", "sltu", "xor", "srl", "or", "and">>, f3) = t
        \/ t = "sub" /\ f7 # 0 /\ f7 # 1 /\ f7 = 32 /\ f3 = 0 /\ f3 # 5
    BY <1>1 DEF Encoding, Case
  <2>3. RegisterType(w) = t
    BY <2>2, Zenon DEF RegisterType
  <2>4. Opcodes(w) = Typed(t, inst_rtype_read(w))
    BY <2>1, <2>3, OpcodeArms, Zenon
  <2>5. QED
    BY <2>1, <2>4, LongReads, TypedMeans, Zenon
<1>2. CASE t \in {"addw", "subw"}
  <2>1. OPCODE(w) = 14 /\ t # "illegal"
    BY <1>2 DEF Encoding
  <2>2. \/ /\ f7 = 0 /\ f7 # 1 /\ f7 # 32
           /\ Case(<<"addw", "sllw", no, no, no, "srlw">>, f3) = t
        \/ /\ f7 # 0 /\ f7 # 1 /\ f7 = 32
           /\ Case(<<"subw", no, no, no, no, "sraw">>, f3) = t
    BY <1>2 DEF Encoding, Case
  <2>3. RegisterWType(w) = t
    BY <2>2, Zenon DEF RegisterWType
  <2>4. Opcodes(w) = Typed(t, inst_rtype_read(w))
    BY <2>1, <2>3, OpcodeArms, Zenon
  <2>5. QED
    BY <2>1, <2>4, LongReads, TypedMeans, Zenon
<1>3. QED
  BY <1>1, <1>2 DEF ShortR

-----------------------------------------------------------------------------
(* The expanded word is decoded to its expansion.                          *)

\* The immediate of d has no bit where the row that at describes draws none.
Filled(at, d, h) == \A k \in 0 .. h : at[k + 1] = 0 => RvcBit(d, k) = 0

\* The immediate of the short word d in the word w, whose format draws all its bits.
LEMMA LongImmediate ==
  ASSUME NEW d, NEW w, NEW at, NEW row, NEW h, Inverse(at, row, h), DOMAIN row = 1 .. 25,
         Carries(w, d, row), Filled(at, d, h), Steady(d, h), NEW k \in 0 .. 31
  PROVE  RowBit(w, 31, row, 31, k) = RvcBit(d, k)
<1>1. 31 \in {0, 31} /\ h \in 0 .. 31 /\ h \in 0 .. h /\ at[h + 1] # 0 /\ k <= 31
  BY DEF Inverse
<1>2. RowBit(w, 31, row, 31, k) = AtBit(at, h, w, 31, 31, k)
  BY <1>1, RowAsDrawn, SMT
<1>3. ASSUME NEW n \in 0 .. h, at[n + 1] # 0 PROVE Bits(w, 31 + 1 - at[n + 1], 1) = RvcBit(d, n)
  <2>1. at[n + 1] \in 1 .. 25 /\ row[at[n + 1]] = n /\ n # x
    BY <1>3 DEF Inverse, x
  <2>2. PICK b \in 7 .. 31 : b = 31 + 1 - at[n + 1] /\ 32 - b = at[n + 1]
    BY <2>1
  <2>3. QED
    BY <2>1, <2>2, Zenon DEF Carries
<1>4. CASE k <= h
  <2>1. k \in 0 .. h
    BY <1>1, <1>4
  <2>2. QED
    BY <1>2, <1>3, <1>4, <2>1, Zenon DEF AtBit, Filled
<1>5. CASE ~(k <= h)
  <2>1. k \in h .. 31
    BY <1>1, <1>5
  <2>2. AtBit(at, h, w, 31, 31, k) = RvcBit(d, h)
    BY <1>1, <1>3, <1>5, Zenon DEF AtBit
  <2>3. QED
    BY <1>2, <2>1, <2>2, Zenon DEF Steady
<1>6. QED
  BY <1>4, <1>5

\* What ShortMeansLong asks of the word w for the short word d, whose expansion is e.
Expanded(d, w, e) ==
  /\ w \in Half \X Half /\ QUADRANT(w) = 3 /\ OPCODE(w) # 28
  /\ Means(Opcodes(w), e[1], e[2], e[3], e[4])
  /\ \A k \in 0 .. (IF e[1] \in Shifts THEN 5 ELSE 31) :
       RowBit(w, 31, Row32[Format(e[1])], 31, k) = RvcBit(d, k)

\* A format that is not a shift: the word holds the encoding and all of the immediate.
LEMMA ExpandedRow ==
  ASSUME NEW d, NEW e, e = Expansion(d), BitsDrawn(d), Registers(e), e[1] \notin Shifts,
         NEW c, c = Encoding[e[1]], Encoded(c),
         NEW row, Row32[Format(e[1])] = row, InPlace(row), DOMAIN row = 1 .. 25,
         NEW at, NEW h, Inverse(at, row, h), Filled(at, d, h), Steady(d, h)
  PROVE  /\ Holds(Expand(d), d, e, row, c)
         /\ \A k \in 0 .. 31 : RowBit(Expand(d), 31, Row32[Format(e[1])], 31, k) = RvcBit(d, k)
<1> DEFINE w == Expand(d)
<1>1. row = LongRow(e[1])
  BY Zenon DEF LongRow
<1>2. Holds(w, d, e, row, c)
  BY <1>1, ExpandedAs, Zenon
<1> HIDE DEF w
<1>3. Carries(w, d, row)
  BY <1>2, Zenon DEF Holds
<1>4. \A k \in 0 .. 31 : RowBit(w, 31, row, 31, k) = RvcBit(d, k)
  BY <1>3, LongImmediate, ZenonT(60)
<1>5. QED
  BY <1>2, <1>4, Zenon DEF w

\* The expansions of each format.
LEMMA ExpandedI ==
  ASSUME NEW d, NEW e, e = Expansion(d), BitsDrawn(d), Registers(e),
         e[1] \in ShortI, e[4] = 0, Steady(d, 11)
  PROVE  Expanded(d, Expand(d), e)
<1> DEFINE row == <<11, 10, 9, 8, 7, 6, 5, 4, 3, 2, 1, 0, x, x, x, x, x, x, x, x, x, x, x, x, x>>
           at == <<12, 11, 10, 9, 8, 7, 6, 5, 4, 3, 2, 1>>
           w == Expand(d)
           t == e[1]
           c == Encoding[t]
<1>1. t \notin Shifts /\ Row32[Format(t)] = row
  <2>1. t \notin Shifts /\ t \in TypesI
    BY DEF ShortI, Shifts, TypesI
  <2>2. Format(t) = "I"
    BY <2>1, Formats, Zenon
  <2>3. Row32["I"] = row
    BY DEF Row32
  <2>4. QED
    BY <2>1, <2>2, <2>3, Zenon
<1>2. Encoded(c) /\ c[1] # 28
  BY DEF Encoded, Encoding, ShortI
<1>3. Inverse(at, row, 11) /\ DOMAIN row = 1 .. 25
  BY DEF Inverse, x
<1>4. \A k \in 0 .. 11 : at[k + 1] # 0
  OBVIOUS
<1>5. InPlace(row)
  BY DEF InPlace, x
<1>6. Clear(row, 7, 5) /\ Clear(row, 12, 3) /\ Clear(row, 15, 5)
  BY DEF Clear
<1> HIDE DEF row, at, w, t, c
<1>7. /\ Holds(w, d, e, row, c)
      /\ \A k \in 0 .. 31 : RowBit(w, 31, Row32[Format(t)], 31, k) = RvcBit(d, k)
  <2>1. Filled(at, d, 11)
    BY <1>4, Zenon DEF Filled
  <2>2. Steady(d, 11)
    OBVIOUS
  <2>3. t = e[1] /\ c = Encoding[e[1]] /\ w = Expand(d)
    BY Zenon DEF w, t, c
  <2>4. QED
    BY <1>1, <1>2, <1>3, <1>5, <2>1, <2>2, <2>3, ExpandedRow, Zenon
<1>8. /\ w \in Half \X Half /\ QUADRANT(w) = 3 /\ OPCODE(w) = c[1]
      /\ RD(w) = e[2] /\ FUNCT3(w) = c[2] /\ RS1(w) = e[3]
  BY <1>6, <1>7, Zenon DEF Holds
<1>9. Means(Opcodes(w), t, RD(w), RS1(w), 0)
  BY <1>8, MeantI, Zenon DEF c, t
<1>10. QED
  BY <1>1, <1>2, <1>7, <1>8, <1>9, Zenon DEF Expanded, t, w

LEMMA ExpandedS ==
  ASSUME NEW d, NEW e, e = Expansion(d), BitsDrawn(d), Registers(e),
         e[1] \in ShortS, e[2] = 0, Steady(d, 11)
  PROVE  Expanded(d, Expand(d), e)
<1> DEFINE row == <<11, 10, 9, 8, 7, 6, 5, x, x, x, x, x, x, x, x, x, x, x, x, x, 4, 3, 2, 1, 0>>
           at == <<25, 24, 23, 22, 21, 7, 6, 5, 4, 3, 2, 1>>
           w == Expand(d)
           t == e[1]
           c == Encoding[t]
<1>1. t \notin Shifts /\ Row32[Format(t)] = row
  <2>1. t \notin Shifts /\ t \in TypesS
    BY DEF ShortS, Shifts, TypesS
  <2>2. Format(t) = "S"
    BY <2>1, Formats, Zenon
  <2>3. Row32["S"] = row
    BY SMTT(40) DEF Row32
  <2>4. QED
    BY <2>1, <2>2, <2>3, Zenon
<1>2. Encoded(c) /\ c[1] # 28
  BY DEF Encoded, Encoding, ShortS
<1>3. Inverse(at, row, 11) /\ DOMAIN row = 1 .. 25
  BY DEF Inverse, x
<1>4. \A k \in 0 .. 11 : at[k + 1] # 0
  OBVIOUS
<1>5. InPlace(row)
  BY DEF InPlace, x
<1>6. Clear(row, 12, 3) /\ Clear(row, 15, 5) /\ Clear(row, 20, 5)
  BY DEF Clear
<1> HIDE DEF row, at, w, t, c
<1>7. /\ Holds(w, d, e, row, c)
      /\ \A k \in 0 .. 31 : RowBit(w, 31, Row32[Format(t)], 31, k) = RvcBit(d, k)
  <2>1. Filled(at, d, 11)
    BY <1>4, Zenon DEF Filled
  <2>2. Steady(d, 11)
    OBVIOUS
  <2>3. t = e[1] /\ c = Encoding[e[1]] /\ w = Expand(d)
    BY Zenon DEF w, t, c
  <2>4. QED
    BY <1>1, <1>2, <1>3, <1>5, <2>1, <2>2, <2>3, ExpandedRow, Zenon
<1>8. /\ w \in Half \X Half /\ QUADRANT(w) = 3 /\ OPCODE(w) = c[1]
      /\ FUNCT3(w) = c[2] /\ RS1(w) = e[3] /\ RS2(w) = e[4]
  BY <1>6, <1>7, Zenon DEF Holds
<1>9. Means(Opcodes(w), t, 0, RS1(w), RS2(w))
  BY <1>8, MeantS, Zenon DEF c, t
<1>10. QED
  BY <1>1, <1>2, <1>7, <1>8, <1>9, Zenon DEF Expanded, t, w

LEMMA ExpandedB ==
  ASSUME NEW d, NEW e, e = Expansion(d), BitsDrawn(d), Registers(e),
         e[1] \in ShortB, e[2] = 0, Steady(d, 12), Empty(d, 1)
  PROVE  Expanded(d, Expand(d), e)
<1> DEFINE row == <<12, 10, 9, 8, 7, 6, 5, x, x, x, x, x, x, x, x, x, x, x, x, x, 4, 3, 2, 1, 11>>
           at == <<0, 24, 23, 22, 21, 7, 6, 5, 4, 3, 2, 25, 1>>
           w == Expand(d)
           t == e[1]
           c == Encoding[t]
<1>1. t \notin Shifts /\ Row32[Format(t)] = row
  <2>1. t \notin Shifts /\ t \in TypesB
    BY DEF ShortB, Shifts, TypesB
  <2>2. Format(t) = "B"
    BY <2>1, Formats, Zenon
  <2>3. Row32["B"] = row
    BY SMTT(40) DEF Row32
  <2>4. QED
    BY <2>1, <2>2, <2>3, Zenon
<1>2. Encoded(c) /\ c[1] # 28
  BY DEF Encoded, Encoding, ShortB
<1>3. Inverse(at, row, 12) /\ DOMAIN row = 1 .. 25
  BY DEF Inverse, x
<1>4. \A k \in 0 .. 12 : at[k + 1] = 0 => k \in 0 .. (1 - 1)
  OBVIOUS
<1>5. InPlace(row)
  BY DEF InPlace, x
<1>6. Clear(row, 12, 3) /\ Clear(row, 15, 5) /\ Clear(row, 20, 5)
  BY DEF Clear
<1> HIDE DEF row, at, w, t, c
<1>7. /\ Holds(w, d, e, row, c)
      /\ \A k \in 0 .. 31 : RowBit(w, 31, Row32[Format(t)], 31, k) = RvcBit(d, k)
  <2>1. Filled(at, d, 12)
    BY <1>4, Zenon DEF Filled, Empty
  <2>2. Steady(d, 12)
    OBVIOUS
  <2>3. t = e[1] /\ c = Encoding[e[1]] /\ w = Expand(d)
    BY Zenon DEF w, t, c
  <2>4. QED
    BY <1>1, <1>2, <1>3, <1>5, <2>1, <2>2, <2>3, ExpandedRow, Zenon
<1>8. /\ w \in Half \X Half /\ QUADRANT(w) = 3 /\ OPCODE(w) = c[1]
      /\ FUNCT3(w) = c[2] /\ RS1(w) = e[3] /\ RS2(w) = e[4]
  BY <1>6, <1>7, Zenon DEF Holds
<1>9. Means(Opcodes(w), t, 0, RS1(w), RS2(w))
  BY <1>8, MeantB, Zenon DEF c, t
<1>10. QED
  BY <1>1, <1>2, <1>7, <1>8, <1>9, Zenon DEF Expanded, t, w

LEMMA ExpandedU ==
  ASSUME NEW d, NEW e, e = Expansion(d), BitsDrawn(d), Registers(e),
         e[1] = "lui", e[3] = 0, e[4] = 0, Empty(d, 12)
  PROVE  Expanded(d, Expand(d), e)
<1> DEFINE row == <<31, 30, 29, 28, 27, 26, 25, 24, 23, 22, 21, 20, 19, 18, 17, 16, 15, 14, 13,
                    12, x, x, x, x, x>>
           at == <<0, 0, 0, 0, 0, 0, 0, 0, 0, 0, 0, 0, 20, 19, 18, 17, 16, 15, 14, 13, 12, 11, 10,
                   9, 8, 7, 6, 5, 4, 3, 2, 1>>
           w == Expand(d)
           t == e[1]
           c == Encoding[t]
<1>1. t \notin Shifts /\ Row32[Format(t)] = row
  <2>1. t \notin Shifts /\ t \in TypesU
    BY DEF Shifts, TypesU
  <2>2. Format(t) = "U"
    BY <2>1, Formats, Zenon
  <2>3. Row32["U"] = row
    BY DEF Row32
  <2>4. QED
    BY <2>1, <2>2, <2>3, Zenon
<1>2. Encoded(c) /\ c[1] # 28
  BY DEF Encoded, Encoding
<1>3. Inverse(at, row, 31) /\ DOMAIN row = 1 .. 25
  BY DEF Inverse, x
<1>4. \A k \in 0 .. 31 : at[k + 1] = 0 => k \in 0 .. (12 - 1)
  OBVIOUS
<1>5. InPlace(row)
  BY DEF InPlace, x
<1>6. Clear(row, 7, 5)
  BY DEF Clear
<1> HIDE DEF row, at, w, t, c
<1>7. /\ Holds(w, d, e, row, c)
      /\ \A k \in 0 .. 31 : RowBit(w, 31, Row32[Format(t)], 31, k) = RvcBit(d, k)
  <2>1. Filled(at, d, 31)
    BY <1>4, Zenon DEF Filled, Empty
  <2>2. Steady(d, 31)
    BY DEF Steady
  <2>3. t = e[1] /\ c = Encoding[e[1]] /\ w = Expand(d)
    BY Zenon DEF w, t, c
  <2>4. QED
    BY <1>1, <1>2, <1>3, <1>5, <2>1, <2>2, <2>3, ExpandedRow, Zenon
<1>8. /\ w \in Half \X Half /\ QUADRANT(w) = 3 /\ OPCODE(w) = c[1]
      /\ RD(w) = e[2]
  BY <1>6, <1>7, Zenon DEF Holds
<1>9. Means(Opcodes(w), t, RD(w), 0, 0)
  BY <1>8, MeantUJ, Zenon DEF c, t
<1>10. QED
  BY <1>1, <1>2, <1>7, <1>8, <1>9, Zenon DEF Expanded, t, w

LEMMA ExpandedJ ==
  ASSUME NEW d, NEW e, e = Expansion(d), BitsDrawn(d), Registers(e),
         e[1] = "jal", e[3] = 0, e[4] = 0, Steady(d, 20), Empty(d, 1)
  PROVE  Expanded(d, Expand(d), e)
<1> DEFINE row == <<20, 10, 9, 8, 7, 6, 5, 4, 3, 2, 1, 11, 19, 18, 17, 16, 15, 14, 13, 12,
                    x, x, x, x, x>>
           at == <<0, 11, 10, 9, 8, 7, 6, 5, 4, 3, 2, 12, 20, 19, 18, 17, 16, 15, 14, 13, 1>>
           w == Expand(d)
           t == e[1]
           c == Encoding[t]
<1>1. t \notin Shifts /\ Row32[Format(t)] = row
  <2>1. t \notin Shifts /\ t = "jal"
    BY DEF Shifts
  <2>2. Format(t) = "J"
    BY <2>1, Formats, Zenon
  <2>3. Row32["J"] = row
    BY DEF Row32
  <2>4. QED
    BY <2>1, <2>2, <2>3, Zenon
<1>2. Encoded(c) /\ c[1] # 28
  BY DEF Encoded, Encoding
<1>3. Inverse(at, row, 20) /\ DOMAIN row = 1 .. 25
  BY DEF Inverse, x
<1>4. \A k \in 0 .. 20 : at[k + 1] = 0 => k \in 0 .. (1 - 1)
  OBVIOUS
<1>5. InPlace(row)
  BY DEF InPlace, x
<1>6. Clear(row, 7, 5)
  BY DEF Clear
<1> HIDE DEF row, at, w, t, c
<1>7. /\ Holds(w, d, e, row, c)
      /\ \A k \in 0 .. 31 : RowBit(w, 31, Row32[Format(t)], 31, k) = RvcBit(d, k)
  <2>1. Filled(at, d, 20)
    BY <1>4, Zenon DEF Filled, Empty
  <2>2. Steady(d, 20)
    OBVIOUS
  <2>3. t = e[1] /\ c = Encoding[e[1]] /\ w = Expand(d)
    BY Zenon DEF w, t, c
  <2>4. QED
    BY <1>1, <1>2, <1>3, <1>5, <2>1, <2>2, <2>3, ExpandedRow, Zenon
<1>8. /\ w \in Half \X Half /\ QUADRANT(w) = 3 /\ OPCODE(w) = c[1]
      /\ RD(w) = e[2]
  BY <1>6, <1>7, Zenon DEF Holds
<1>9. Means(Opcodes(w), t, RD(w), 0, 0)
  BY <1>8, MeantUJ, Zenon DEF c, t
<1>10. QED
  BY <1>1, <1>2, <1>7, <1>8, <1>9, Zenon DEF Expanded, t, w

LEMMA ExpandedR ==
  ASSUME NEW d, NEW e, e = Expansion(d), BitsDrawn(d), Registers(e), e[1] \in ShortR, Empty(d, 32)
  PROVE  Expanded(d, Expand(d), e)
<1> DEFINE row == Blank(25)
           w == Expand(d)
           t == e[1]
           c == Encoding[t]
<1>1. t \notin Shifts /\ Row32[Format(t)] = row
  <2>1. t \notin Shifts /\ t \in KindR \cup {"ecall"}
    BY DEF ShortR, Shifts, KindR, Kind, Plain, TypesI, TypesS, TypesB, TypesU
  <2>2. Format(t) = "R"
    BY <2>1, Formats, Zenon
  <2>3. Row32["R"] = row
    BY SMTT(40) DEF Row32
  <2>4. QED
    BY <2>1, <2>2, <2>3, Zenon
<1>2. Encoded(c) /\ c[1] # 28
  BY DEF Encoded, Encoding, ShortR
<1>3. InPlace(row)
  BY DEF InPlace, Blank
<1>4. /\ Clear(row, 7, 5) /\ Clear(row, 12, 3) /\ Clear(row, 15, 5) /\ Clear(row, 20, 5)
      /\ Clear(row, 25, 7)
  BY DEF Clear, Blank
<1>5. 25 \in Nat \ {0} /\ 31 \in {0, 31} /\ 32 - 1 = 31
  OBVIOUS
<1>6. \A k \in 0 .. 31 : RowBit(w, 31, row, 31, k) = RvcBit(d, k)
  BY <1>5, BlankRow, ZenonT(60) DEF Empty
<1> HIDE DEF row, w, t, c
<1>7. Holds(w, d, e, row, c)
  <2>1. row = LongRow(e[1]) /\ c = Encoding[e[1]]
    BY <1>1, Zenon DEF LongRow, t, c
  <2>2. QED
    BY <1>2, <1>3, <2>1, ExpandedAs, Zenon DEF w
<1>8. /\ w \in Half \X Half /\ QUADRANT(w) = 3 /\ OPCODE(w) = c[1] /\ RD(w) = e[2]
      /\ FUNCT3(w) = c[2] /\ RS1(w) = e[3] /\ RS2(w) = e[4] /\ FUNCT7(w) = c[3]
  BY <1>4, <1>7, Zenon DEF Holds
<1>9. Means(Opcodes(w), t, RD(w), RS1(w), RS2(w))
  BY <1>8, MeantR, Zenon DEF c, t
<1>10. QED
  BY <1>1, <1>2, <1>6, <1>8, <1>9, Zenon DEF Expanded, t, w

\* The row of a shift leaves bits 26 to 31 to funct6; its six bits are those of the format.
LEMMA ExpandedShift ==
  ASSUME NEW d, NEW e, e = Expansion(d), BitsDrawn(d), Registers(e), e[1] \in ShortShifts, e[4] = 0
  PROVE  Expanded(d, Expand(d), e)
<1> DEFINE row == ShiftRow
           long == <<11, 10, 9, 8, 7, 6, 5, 4, 3, 2, 1, 0, x, x, x, x, x, x, x, x, x, x, x, x, x>>
           at == <<12, 11, 10, 9, 8, 7, 6, 5, 4, 3, 2, 1>>
           w == Expand(d)
           t == e[1]
           c == Encoding[t]
<1>1. t \in Shifts /\ Row32[Format(t)] = long
  <2>1. t \in Shifts /\ t \in TypesI
    BY DEF ShortShifts, Shifts, TypesI
  <2>2. Format(t) = "I"
    BY <2>1, Formats, Zenon
  <2>3. Row32["I"] = long
    BY DEF Row32
  <2>4. QED
    BY <2>1, <2>2, <2>3, Zenon
<1>2. Encoded(c) /\ c[1] # 28
  BY DEF Encoded, Encoding, ShortShifts
<1>3. Inverse(at, long, 11)
  BY DEF Inverse, x
<1>4. \A k \in 0 .. 5 : at[k + 1] # 0 /\ 32 - at[k + 1] \in 7 .. 31 /\ row[at[k + 1]] = k
  BY DEF ShiftRow
<1>5. InPlace(row)
  BY DEF InPlace, ShiftRow, x
<1>6. Clear(row, 7, 5) /\ Clear(row, 12, 3) /\ Clear(row, 15, 5) /\ Clear(row, 26, 6)
  BY DEF Clear, ShiftRow
<1> HIDE DEF row, long, at, w, t, c
<1>7. Holds(w, d, e, row, c)
  <2>1. row = LongRow(e[1]) /\ c = Encoding[e[1]]
    BY <1>1, Zenon DEF LongRow, t, c, row
  <2>2. QED
    BY <1>2, <1>5, <2>1, ExpandedAs, Zenon DEF w
<1>8. /\ w \in Half \X Half /\ QUADRANT(w) = 3 /\ OPCODE(w) = c[1] /\ RD(w) = e[2]
      /\ FUNCT3(w) = c[2] /\ RS1(w) = e[3] /\ IMM116(w) = c[3] \div 2
  BY <1>6, <1>7, Zenon DEF Holds
<1>9. Means(Opcodes(w), t, RD(w), RS1(w), 0)
  BY <1>8, MeantShift, Zenon DEF c, t
<1>10. ASSUME NEW k \in 0 .. 5 PROVE RowBit(w, 31, long, 31, k) = RvcBit(d, k)
  <2>1. k \in 0 .. 31 /\ k <= 11 /\ 31 \in {0, 31} /\ k # x
    BY DEF x
  <2>2. RowBit(w, 31, long, 31, k) = AtBit(at, 11, w, 31, 31, k)
    BY <1>3, <2>1, RowAsDrawn, SMT
  <2>3. PICK b \in 7 .. 31 : b = 31 + 1 - at[k + 1] /\ 32 - b = at[k + 1]
    <3>1. at[k + 1] \in Int
      BY DEF at
    <3>2. QED
      BY <1>4, <3>1
  <2>4. Bits(w, b, 1) = RvcBit(d, k)
    BY <1>4, <1>7, <2>1, <2>3, ZenonT(60) DEF Holds, Carries
  <2>5. QED
    BY <1>4, <2>1, <2>2, <2>3, <2>4, Zenon DEF AtBit
<1>11. QED
  BY <1>1, <1>2, <1>8, <1>9, <1>10, Zenon DEF Expanded, t, w

\* An expansion that fits its format is a word that decodes to it.
LEMMA FormedExpanded ==
  ASSUME NEW d, Formed(d, Expansion(d))
  PROVE  Expanded(d, Expand(d), Expansion(d))
BY ExpandedI, ExpandedShift, ExpandedS, ExpandedB, ExpandedU, ExpandedJ, ExpandedR, Zenon
   DEF Formed

-----------------------------------------------------------------------------
(* The short and the long half of decode_inst agree.                       *)

\* The instructions of 32 bits are not compressed.
LEMMA OpcodesLong ==
  ASSUME NEW d \in Half \X Half
  PROVE  Opcodes(d).rvc = FALSE
<1>1. Illegal.rvc = FALSE
  BY Zenon DEF Illegal, Cleared
<1>2. ASSUME NEW i, LongRead(i), NEW t
      PROVE  /\ Typed(t, i).rvc = FALSE
             /\ [i EXCEPT !.type = t, !.continue_exec = TRUE].rvc = FALSE
  BY <1>1, <1>2, Zenon DEF Typed, Checked, LongRead, Read, Fits, Keys
<1>3. QED
  BY <1>1, <1>2, Readers32, ClearedRead, Zenon DEF Opcodes

\* A short word that the code accepts has an expansion, which decodes to its instruction.
LEMMA ShortExpanded ==
  ASSUME NEW d \in Half \X Half, QUADRANT(d) \in {0, 1, 2}, decode_inst(Cleared, d) # Illegal
  PROVE  /\ Is(decode_inst(Cleared, d), Expansion(d)) /\ Right(decode_inst(Cleared, d), d)
         /\ Expanded(d, Expand(d), Expansion(d))
<1> DEFINE i == decode_inst(Cleared, d)
<1>1. /\ COPCODE(d) = 4 => /\ COPCODE(d) # 0 /\ COPCODE(d) # 1 /\ COPCODE(d) # 2 /\ COPCODE(d) # 3
                           /\ COPCODE(d) # 5 /\ COPCODE(d) # 6 /\ COPCODE(d) # 7
                           /\ COPCODE(d) \notin {6, 7}
  OBVIOUS
<1>2. CASE QUADRANT(d) = 0
  <2>1. i = Quadrant0(d)
    <3>1. QUADRANT(d) # 1 /\ QUADRANT(d) # 2 /\ QUADRANT(d) # 3
      BY <1>2
    <3>2. QED
      BY <1>2, <3>1, Zenon DEF decode_inst
  <2>2. COPCODE(d) # 4
    <3>1. COPCODE(d) = 4 => Quadrant0(d) = Illegal
      BY <1>1, Zenon DEF Quadrant0
    <3>2. QED
      BY <2>1, <3>1, Zenon
  <2>3. Is(i, Expansion(d)) /\ Right(i, d)
    BY <1>2, <2>1, Expansion0, Quadrant0Shown, Zenon DEF Shown
  <2>4. QED
    BY <1>2, <2>2, <2>3, Formed0, FormedExpanded, Zenon
<1>3. CASE QUADRANT(d) = 1
  <2>1. i = Quadrant1(d)
    <3>1. QUADRANT(d) # 0 /\ QUADRANT(d) # 2 /\ QUADRANT(d) # 3
      BY <1>3
    <3>2. QED
      BY <1>3, <3>1, Zenon DEF decode_inst
  <2>2. COPCODE(d) = 4 => Quadrant1(d) = CompressedAlu(d)
    BY <1>1, Zenon DEF Quadrant1
  <2>3. Formed(d, Expansion(d))
    BY <1>3, <2>1, <2>2, Formed1, FormedAlu, Zenon
  <2>4. Is(i, Expansion(d)) /\ Right(i, d)
    BY <1>3, <2>1, Expansion1, Quadrant1Shown, Zenon DEF Shown
  <2>5. QED
    BY <2>3, <2>4, FormedExpanded, Zenon
<1>4. CASE QUADRANT(d) = 2
  <2>1. i = Quadrant2(d)
    <3>1. QUADRANT(d) # 0 /\ QUADRANT(d) # 1 /\ QUADRANT(d) # 3
      BY <1>4
    <3>2. QED
      BY <1>4, <3>1, Zenon DEF decode_inst
  <2>2. Is(i, Expansion(d)) /\ Right(i, d)
    BY <1>4, <2>1, Expansion2, Quadrant2Shown, Zenon DEF Shown
  <2>3. QED
    BY <1>4, <2>2, Formed2, FormedExpanded, Zenon
<1>5. QED
  BY <1>2, <1>3, <1>4

\* The immediates u and v have the same bits up to bit n.
Alike(u, v, n) == \A k \in 0 .. n : ImmBit(u, k) = ImmBit(v, k)

\* As far as the instruction t uses them: a shift is by six bits of its immediate.
AlikeFor(t, u, v) == Alike(u, v, IF t \in Shifts THEN 5 ELSE 31)

\* Numbers whose bits ImmBit gives.
LEMMA SameImmediate ==
  ASSUME NEW u \in Signed32, NEW v \in Signed32
  PROVE  /\ Alike(u, v, 31) => u = v
         /\ Alike(u, v, 5) => u % 64 = v % 64
<1>1. u \in Int /\ v \in Int
  BY DEF Signed32
<1>2. \A k \in 0 .. 31 : ImmBit(u, k) = Digit(u, k) /\ ImmBit(v, k) = Digit(v, k)
  BY ImmDigit, Zenon
<1>3. ASSUME Alike(u, v, 31) PROVE u = v
  <2>1. \A k \in 0 .. 31 : Digit(u, k) = Digit(v, k)
    BY <1>2, <1>3, Zenon DEF Alike
  <2>2. QED
    BY <2>1, SameNumber, Zenon
<1>4. ASSUME Alike(u, v, 5) PROVE u % 64 = v % 64
  <2>1. 6 \in 1 .. 32 /\ 2^6 = 64 /\ 6 - 1 = 5 /\ \A k \in 0 .. 5 : k \in 0 .. 31
    OBVIOUS
  <2>2. \A k \in 0 .. 5 : Digit(u, k) = Digit(v, k)
    <3> SUFFICES ASSUME NEW k \in 0 .. 5 PROVE Digit(u, k) = Digit(v, k)
      OBVIOUS
    <3>1. ImmBit(u, k) = ImmBit(v, k) /\ k \in 0 .. 31
      BY <1>4, <2>1, Zenon DEF Alike
    <3>2. QED
      BY <1>2, <3>1, Zenon
  <2>3. PICK m \in 1 .. 32 : m = 6 /\ 0 .. (m - 1) = 0 .. 5
    BY <2>1
  <2>4. \A k \in 0 .. (m - 1) : Digit(u, k) = Digit(v, k)
    BY <2>2, <2>3, Zenon
  <2>5. u % 2^m = v % 2^m
    BY <1>1, <2>4, SameDigits, Zenon
  <2>6. QED
    BY <2>1, <2>3, <2>5, Zenon
<1>5. QED
  BY <1>3, <1>4

\* Two instructions with the type and the registers of e, and the same bits in the immediate.
Agree(i, j, e) ==
  /\ Means(i, e[1], e[2], e[3], e[4]) /\ Means(j, e[1], e[2], e[3], e[4])
  /\ i.continue_exec = j.continue_exec
  /\ i.imm \in Signed32 /\ j.imm \in Signed32 /\ AlikeFor(e[1], i.imm, j.imm)

LEMMA SameMeaning ==
  ASSUME NEW i, NEW j, NEW e, Agree(i, j, e)
  PROVE  Meaning(i) = Meaning(j)
<1> DEFINE u == IF i.type \in Shifts THEN i.imm % 64 ELSE i.imm
           v == IF j.type \in Shifts THEN j.imm % 64 ELSE j.imm
<1>1. i.type = e[1] /\ j.type = e[1] /\ i.continue_exec = j.continue_exec
  BY Zenon DEF Agree, Means
<1>2. u = v
  BY <1>1, SameImmediate, Zenon DEF Agree, AlikeFor
<1>3. Meaning(i) = [i EXCEPT !.rvc = FALSE, !.imm = u]
      /\ Meaning(j) = [j EXCEPT !.rvc = FALSE, !.imm = v]
  BY Zenon DEF Meaning
<1> HIDE DEF u, v
<1>4. [i EXCEPT !.rvc = FALSE, !.imm = u] = [j EXCEPT !.rvc = FALSE, !.imm = u]
  <2>1. DOMAIN i = Keys /\ DOMAIN j = Keys
    BY Zenon DEF Agree, Means, Reads
  <2>2. i.rd = j.rd /\ i.rs1 = j.rs1 /\ i.rs2 = j.rs2 /\ i.rs3 = j.rs3 /\ i.csr = j.csr
    BY Zenon DEF Agree, Means, Reads
  <2>3. QED
    <3> DEFINE f == [i EXCEPT !.rvc = FALSE, !.imm = u]
               g == [j EXCEPT !.rvc = FALSE, !.imm = u]
    <3>1. f = [k \in Keys |-> f[k]] /\ g = [k \in Keys |-> g[k]]
      BY <2>1
    <3>2. ASSUME NEW k \in Keys PROVE f[k] = g[k]
      BY <1>1, <2>1, <2>2, Zenon DEF Keys
    <3>3. QED
      <4> HIDE DEF f, g
      <4>1. f = g
        BY <3>1, <3>2, SMT
      <4>2. QED
        BY <4>1, Zenon DEF f, g
<1>5. QED
  BY <1>2, <1>3, <1>4, Zenon

\* For every short word that decode_inst accepts, the instruction of 32 bits that the manual
\* gives as its expansion is decoded to the same operation, the same registers and the same
\* immediate: the two halves of decode_inst agree, and no short immediate is too long for the
\* field of its expansion.
THEOREM ShortFormsAgree == Spec => []ShortMeansLong
<1>1. DecodeInv => ShortMeansLong
  <2>1. SUFFICES ASSUME DecodeInv, ctl = "decoded", inst.rvc
                 PROVE  Meaning(decode_inst(Cleared, Expand(data))) = Meaning(inst)
    BY Zenon DEF ShortMeansLong
  <2> DEFINE e == Expansion(data)
             w == Expand(data)
             j == decode_inst(Cleared, w)
  <2>2. inst = decode_inst(Cleared, data) /\ inst # Illegal /\ data \in Half \X Half
    BY <2>1, Zenon DEF DecodeInv
  <2>3. QUADRANT(data) \in {0, 1, 2} /\ data # EcallWord
    <3>1. QUADRANT(data) = 0 \/ QUADRANT(data) = 1 \/ QUADRANT(data) = 2 \/ QUADRANT(data) = 3
      BY <2>2, Fields
    <3>2. data # EcallWord
      <4>1. [Cleared EXCEPT !.type = "ecall", !.continue_exec = TRUE].rvc = FALSE
        BY Zenon DEF Cleared
      <4>2. QED
        BY <2>1, <2>2, <4>1, DecodedEcall, Zenon
    <3>3. QUADRANT(data) # 3
      <4>1. SUFFICES ASSUME QUADRANT(data) = 3 PROVE FALSE
        OBVIOUS
      <4>2. QUADRANT(data) # 0 /\ QUADRANT(data) # 1 /\ QUADRANT(data) # 2
        BY <4>1
      <4>3. inst = Opcodes(data)
        BY <2>2, <3>2, <4>1, <4>2, Zenon DEF decode_inst, Quadrant3
      <4>4. QED
        BY <2>1, <2>2, <4>3, OpcodesLong, Zenon
    <3>4. QED
      BY <3>1, <3>2, <3>3
  <2>4. Is(inst, e) /\ Right(inst, data) /\ Expanded(data, w, e)
    BY <2>2, <2>3, ShortExpanded, Zenon
  <2> HIDE DEF e, w
  <2>5. j = Opcodes(w) /\ w \in Half \X Half /\ w # EcallWord
    <3>1. w \in Half \X Half /\ QUADRANT(w) = 3 /\ OPCODE(w) # 28
      BY <2>4, Zenon DEF Expanded
    <3>2. OPCODE(EcallWord) = 28
      BY DEF OPCODE, Bits, EcallWord
    <3>3. w # EcallWord
      BY <3>1, <3>2, Zenon
    <3>4. QUADRANT(w) # 0 /\ QUADRANT(w) # 1 /\ QUADRANT(w) # 2
      BY <3>1
    <3>5. QED
      BY <3>1, <3>3, <3>4, Zenon DEF decode_inst, Quadrant3
  <2>6. Means(inst, e[1], e[2], e[3], e[4]) /\ Means(j, e[1], e[2], e[3], e[4])
    BY <2>2, <2>4, <2>5, Zenon DEF Is, Expanded
  <2>7. Right(j, w) /\ j.rvc = FALSE /\ j # Illegal
    <3>1. j # Illegal
      <4>1. Decoded(inst) /\ inst.type = e[1] /\ j.type = e[1]
        BY <2>2, <2>3, <2>6, DecodedWord, Zenon DEF Means
      <4>2. inst.type # "illegal"
        BY <2>2, <4>1 DEF Decoded, Plain, Jumps
      <4>3. Illegal.type = "illegal"
        BY Zenon DEF Illegal, Cleared
      <4>4. QED
        BY <4>1, <4>2, <4>3, Zenon
    <3>2. QED
      BY <2>5, <3>1, OpcodesShown, OpcodesLong, Zenon DEF Shown
  <2>8. inst.continue_exec = j.continue_exec
    <3>1. Decoded(inst) /\ Decoded(j) /\ inst.type = j.type
      BY <2>2, <2>3, <2>5, <2>6, DecodedWord, Zenon DEF Means
    <3>2. j # Illegal
      BY <2>7
    <3>3. inst.type \in Jumps => inst.type \notin Plain
      BY DEF Jumps, Plain
    <3>4. QED
      BY <2>2, <3>1, <3>2, <3>3, Zenon DEF Decoded
  <2>9. AlikeFor(e[1], inst.imm, j.imm)
    <3> SUFFICES ASSUME NEW k \in 0 .. (IF e[1] \in Shifts THEN 5 ELSE 31)
                 PROVE  ImmBit(inst.imm, k) = ImmBit(j.imm, k)
      BY Zenon DEF AlikeFor, Alike
    <3>1. inst.type = e[1] /\ j.type = e[1]
      BY <2>6, Zenon DEF Means
    <3>2. ImmBit(inst.imm, k) = RvcBit(data, k)
      BY <2>1, <2>4, <3>1, Zenon DEF Right
    <3>3. ImmBit(j.imm, k) = RowBit(w, 31, Row32[Format(e[1])], 31, k)
      BY <2>7, <3>1, Zenon DEF Right
    <3>4. QED
      BY <2>4, <3>2, <3>3, Zenon DEF Expanded
  <2>10. inst.imm \in Signed32 /\ j.imm \in Signed32
    BY <2>4, <2>7, Zenon DEF Right
  <2> HIDE DEF j
  <2>11. Agree(inst, j, e)
    BY <2>6, <2>8, <2>9, <2>10, Zenon DEF Agree
  <2>12. Meaning(inst) = Meaning(j)
    BY <2>11, SameMeaning, Zenon
  <2>13. QED
    BY <2>12, Zenon DEF j, w
<1>2. QED
  BY <1>1, DecodeInvariant, PTL
=============================================================================
