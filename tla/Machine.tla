------------------------------ MODULE Machine ------------------------------
(***************************************************************************)
(* The emulator put together: the loops of Interp, decode_inst as Decode   *)
(* has it, the table of Dispatch and the integer handlers of Alu, running  *)
(* the machine code of a guest program from its entry to its exit.         *)
(*                                                                         *)
(* A register has XLen bits, and so has a cell of memory: ld and sd move a *)
(* whole register.  The programs make no system call but exit and hold no  *)
(* floating-point instruction.                                             *)
(***************************************************************************)
EXTENDS Interp, Dispatch

CONSTANTS XLen, WLen,   \* as in Alu
          Entry         \* mmu.entry

D == INSTANCE Decode WITH Words <- {}, data <- pc

A == INSTANCE Alu WITH Values <- {}, rs1 <- pc, rs2 <- pc, op <- pc, rd <- pc

\* The groups of Arch, by handler.
GroupOf(h) ==
  CASE h \in {"lb", "lh", "lw", "ld", "lbu", "lhu", "lwu"} -> "load"
    [] h \in {"sb", "sh", "sw", "sd"} -> "store"
    [] h \in {"beq", "bne", "blt", "bge", "bltu", "bgeu"} -> "branch"
    [] h \in {"jal", "jalr", "ecall"} -> h
    [] h \in CsrHandlers -> "csr"
    [] h = "empty" -> "fence"
    [] h \in A!Basic \cup A!Immediate \cup A!WordOps \cup A!MulOps \cup A!DivOps
             \cup A!DivWordOps \cup {"lui", "auipc"} -> "alu"
    [] OTHER -> "illegal"

\* decode_inst on the two cells, and the handler that funcs has for its type.
decoded(raw) ==
  LET i == D!decode_inst(D!Cleared, raw)
  IN  IF i.type = "illegal" THEN [NoInst EXCEPT !.kind = "illegal"]
      ELSE [kind |-> GroupOf(Handler(i.type)),
            op |-> TypeValue[i.type],
            rd |-> i.rd, rs1 |-> i.rs1, rs2 |-> i.rs2, rs3 |-> i.rs3,
            imm |-> i.imm, csr |-> i.csr \in {1, 2, 3}, rvc |-> i.rvc]

\* The handlers that compute rd from rs1, rs2, pc and the immediate.
computed(k, o) ==
  LET h == Handler(inst_type_t[k])
  IN  CASE h = "lui" -> Wrap(o.imm)
        [] h = "auipc" -> Wrap(o.pc + o.imm)
        [] h \in A!Basic -> A!func_basic(h, o.rs1, o.rs2)
        [] h \in A!Immediate -> A!func_imm(h, o.rs1, o.imm)
        [] h \in A!WordOps -> A!func_word(h, o.rs1, o.rs2)
        [] h \in A!MulOps -> A!func_mul(h, o.rs1, o.rs2)
        [] h \in A!DivOps -> A!func_div(h, o.rs1, o.rs2)
        [] h \in A!DivWordOps -> A!func_divw(h, o.rs1, o.rs2)

\* The W divisions whose divisor is not 0 but has a lower half of 0.
traps(k, o) ==
  LET h == Handler(inst_type_t[k])
  IN  h \in A!DivWordOps /\ A!func_divw(h, o.rs1, o.rs2) = A!Crash

\* func_beq to func_bgeu
taken(k, a, b) ==
  LET h == Handler(inst_type_t[k])
  IN  CASE h = "beq" -> a = b
        [] h = "bne" -> a # b
        [] h = "blt" -> Signed(a) < Signed(b)
        [] h = "bge" -> Signed(a) >= Signed(b)
        [] h = "bltu" -> a < b
        [] h = "bgeu" -> a >= b

\* func_ld, func_lw and func_lwu on a cell; func_sd and func_sw.
loaded(k, c) ==
  CASE Handler(inst_type_t[k]) = "ld" -> c
    [] Handler(inst_type_t[k]) = "lw" -> Wrap(A!int32(c))
    [] Handler(inst_type_t[k]) = "lwu" -> A!uint32(c)

stored(k, c, v) ==
  CASE Handler(inst_type_t[k]) = "sd" -> v
    [] Handler(inst_type_t[k]) = "sw" -> (c - A!uint32(c)) + A!uint32(v)

MachineInit == Init /\ pc = Entry

MachineSpec == MachineInit /\ [][Next]_vars /\ WF_vars(Step)
=============================================================================
