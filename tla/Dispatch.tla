------------------------------ MODULE Dispatch ------------------------------
(***************************************************************************)
(* How exec_block_interp gets from the type of an instruction to its       *)
(* handler: funcs[inst.type], by position.  The enumeration is in rvemu.h  *)
(* and the table in interp.c, and nothing but their order connects them.   *)
(***************************************************************************)
EXTENDS Naturals, Sequences

\* enum inst_type_t; the first has the value 0.
inst_type_t == <<
    "lb", "lh", "lw", "ld", "lbu", "lhu", "lwu", "fence", "fence_i", "addi", "slli", "slti",
    "sltiu", "xori", "srli", "srai", "ori", "andi", "auipc", "addiw", "slliw", "srliw",
    "sraiw", "sb", "sh", "sw", "sd", "add", "sll", "slt", "sltu", "xor", "srl", "or",
    "and", "mul", "mulh", "mulhsu", "mulhu", "div", "divu", "rem", "remu", "sub", "sra",
    "lui", "addw", "sllw", "srlw", "mulw", "divw", "divuw", "remw", "remuw", "subw",
    "sraw", "beq", "bne", "blt", "bge", "bltu", "bgeu", "jalr", "jal", "ecall", "csrrc",
    "csrrci", "csrrs", "csrrsi", "csrrw", "csrrwi", "flw", "fsw", "fmadd_s", "fmsub_s",
    "fnmsub_s", "fnmadd_s", "fadd_s", "fsub_s", "fmul_s", "fdiv_s", "fsqrt_s", "fsgnj_s",
    "fsgnjn_s", "fsgnjx_s", "fmin_s", "fmax_s", "fcvt_w_s", "fcvt_wu_s", "fmv_x_w",
    "feq_s", "flt_s", "fle_s", "fclass_s", "fcvt_s_w", "fcvt_s_wu", "fmv_w_x", "fcvt_l_s",
    "fcvt_lu_s", "fcvt_s_l", "fcvt_s_lu", "fld", "fsd", "fmadd_d", "fmsub_d", "fnmsub_d",
    "fnmadd_d", "fadd_d", "fsub_d", "fmul_d", "fdiv_d", "fsqrt_d", "fsgnj_d", "fsgnjn_d",
    "fsgnjx_d", "fmin_d", "fmax_d", "fcvt_s_d", "fcvt_d_s", "feq_d", "flt_d", "fle_d",
    "fclass_d", "fcvt_w_d", "fcvt_wu_d", "fcvt_d_w", "fcvt_d_wu", "fcvt_l_d", "fcvt_lu_d",
    "fmv_x_d", "fcvt_d_l", "fcvt_d_lu", "fmv_d_x" >>

\* The table of handlers.
funcs == <<
    "lb", "lh", "lw", "ld", "lbu", "lhu", "lwu", "empty", "empty", "addi", "slli", "slti",
    "sltiu", "xori", "srli", "srai", "ori", "andi", "auipc", "addiw", "slliw", "srliw",
    "sraiw", "sb", "sh", "sw", "sd", "add", "sll", "slt", "sltu", "xor", "srl", "or",
    "and", "mul", "mulh", "mulhsu", "mulhu", "div", "divu", "rem", "remu", "sub", "sra",
    "lui", "addw", "sllw", "srlw", "mulw", "divw", "divuw", "remw", "remuw", "subw",
    "sraw", "beq", "bne", "blt", "bge", "bltu", "bgeu", "jalr", "jal", "ecall", "csrrw",
    "csrrs", "csrrc", "csrrwi", "csrrsi", "csrrci", "flw", "fsw", "fmadd_s", "fmsub_s",
    "fnmsub_s", "fnmadd_s", "fadd_s", "fsub_s", "fmul_s", "fdiv_s", "fsqrt_s", "fsgnj_s",
    "fsgnjn_s", "fsgnjx_s", "fmin_s", "fmax_s", "fcvt_w_s", "fcvt_wu_s", "fmv_x_w",
    "feq_s", "flt_s", "fle_s", "fclass_s", "fcvt_s_w", "fcvt_s_wu", "fmv_w_x", "fcvt_l_s",
    "fcvt_lu_s", "fcvt_s_l", "fcvt_s_lu", "fld", "fsd", "fmadd_d", "fmsub_d", "fnmsub_d",
    "fnmadd_d", "fadd_d", "fsub_d", "fmul_d", "fdiv_d", "fsqrt_d", "fsgnj_d", "fsgnjn_d",
    "fsgnjx_d", "fmin_d", "fmax_d", "fcvt_s_d", "fcvt_d_s", "feq_d", "flt_d", "fle_d",
    "fclass_d", "fcvt_w_d", "fcvt_wu_d", "fcvt_d_w", "fcvt_d_wu", "fcvt_l_d", "fcvt_lu_d",
    "fmv_x_d", "fcvt_d_l", "fcvt_d_lu", "fmv_d_x" >>

\* The place of each name in a table without repetitions.
Place(table) ==
  [name \in { table[k] : k \in DOMAIN table } |-> CHOOSE k \in DOMAIN table : table[k] = name]

TypeValue == Place(inst_type_t)

\* Mutant: add and sub are in each other's place.
Handler_Swapped(type) ==
  CASE type = "add" -> "sub"
    [] type = "sub" -> "add"
    [] OTHER -> funcs[TypeValue[type]]

\* funcs[inst.type]
Handler(type) == funcs[TypeValue[type]]

\* The six handlers of the csr instructions have one body, the macro FUNC.
CsrHandlers == {"csrrw", "csrrs", "csrrc", "csrrwi", "csrrsi", "csrrci"}
=============================================================================
