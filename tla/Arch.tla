-------------------------------- MODULE Arch --------------------------------
(***************************************************************************)
(* What ISA and Interp share: registers, memory cells, decoded             *)
(* instructions, and the meaning of single instructions as parameters.     *)
(* The results of this development about the interpreter's control flow    *)
(* hold whatever the arithmetic is.                                        *)
(*                                                                         *)
(* Memory is a function on the mapped addresses.  A cell is one 16-bit     *)
(* parcel; a data access touches one cell and an instruction fetch two.    *)
(* Reg joins gp_regs and fp_regs; only gp_regs has a register zero.        *)
(***************************************************************************)
EXTENDS Word

CONSTANTS
  Reg, zero, a0, a7,      \* the registers, and the three that have a role
  Addr, Cell,             \* mapped guest addresses, contents of a cell
  Fields(_),              \* decode_inst on the two cells of an instruction
  AluOp(_, _),            \* the result of a computing instruction on its operands
  AluTraps(_, _),         \* whether the host's division faults on them instead
  BranchTaken(_, _, _),   \* the condition of a branch on rs1 and rs2
  LoadOp(_, _),           \* the register value a load makes of a cell
  StoreOp(_, _, _),       \* a cell after a store of a register value
  Syscalls, SysExit,      \* system calls that are implemented; exit
  SyscallRet(_),          \* the values a system call may return
  SyscallMem(_, _)        \* the memories it may leave

Kind == {"alu", "load", "store", "branch", "jal", "jalr", "ecall", "csr",
         "fence", "illegal"}

\* inst_t without continue_exec.  kind groups the values of inst_type_t by
\* the shape of their handlers; op tells the members of a group apart.
Inst == [kind : Kind, op : Nat, rd : Reg, rs1 : Reg, rs2 : Reg, rs3 : Reg,
         imm : Int, csr : BOOLEAN, rvc : BOOLEAN]

Mem == [Addr -> Cell]

ASSUME ArchAssumption ==
  /\ AddrSpace % 2 = 0
  /\ zero \in Reg /\ a0 \in Reg \ {zero} /\ a7 \in Reg \ {zero}
  /\ Addr \subseteq Word
  /\ \A c, d \in Cell : Fields(<<c, d>>) \in Inst
  /\ SysExit \notin Syscalls
  /\ \A n \in Syscalls : \A m \in Mem : SyscallMem(n, m) \subseteq Mem

\* The bytes of an instruction.
Size(inst) == IF inst.rvc THEN 2 ELSE 4

\* *(uint32_t *)TO_HOST(pc): both cells are read, even for a short instruction.
Fetchable(pc) == {pc, Wrap(pc + 2)} \subseteq Addr
Raw(mem, pc) == <<mem[pc], mem[Wrap(pc + 2)]>>

\* What a computing instruction depends on; some write only a part of rd.
Operands(inst, pc, get(_)) ==
  [pc |-> pc, imm |-> inst.imm, rd |-> get(inst.rd), rs1 |-> get(inst.rs1),
   rs2 |-> get(inst.rs2), rs3 |-> get(inst.rs3)]

\* The target of an indirect jump has its lowest bit cleared.
Even(x) == x - (x % 2)
=============================================================================
