--------------------------------- MODULE ISA ---------------------------------
(***************************************************************************)
(* What the emulator promises its guest: one instruction of the RISC-V     *)
(* user-level architecture at a time, read from memory at the moment it is *)
(* executed.  Register zero reads as 0 and ignores writes.  There is no    *)
(* decoded instruction, no block and no exit reason here.                  *)
(***************************************************************************)
EXTENDS Arch

VARIABLES pc, regs, mem,
          mode      \* "run", "call" (an ecall is being served) or "stop"

archVars == <<pc, regs, mem, mode>>

Get(r) == IF r = zero THEN 0 ELSE regs[r]
Put(r, v) == IF r = zero THEN regs ELSE [regs EXCEPT ![r] = v]

\* The instruction at pc, when there is one, and the one that follows it.
Current == Fields(Raw(mem, pc))
Following == Wrap(pc + Size(Current))
DataAddr == Wrap(Get(Current.rs1) + Current.imm)

Fetched(kind) == mode = "run" /\ Fetchable(pc) /\ Current.kind = kind

Traps == AluTraps(Current.op, Operands(Current, pc, Get))

Alu ==
  /\ Fetched("alu") /\ ~Traps
  /\ regs' = Put(Current.rd, AluOp(Current.op, Operands(Current, pc, Get)))
  /\ pc' = Following
  /\ UNCHANGED <<mem, mode>>

Load ==
  /\ Fetched("load") /\ DataAddr \in Addr
  /\ regs' = Put(Current.rd, LoadOp(Current.op, mem[DataAddr]))
  /\ pc' = Following
  /\ UNCHANGED <<mem, mode>>

Store ==
  /\ Fetched("store") /\ DataAddr \in Addr
  /\ mem' = [mem EXCEPT ![DataAddr] = StoreOp(Current.op, mem[DataAddr], Get(Current.rs2))]
  /\ pc' = Following
  /\ UNCHANGED <<regs, mode>>

Branch ==
  /\ Fetched("branch")
  /\ pc' = IF BranchTaken(Current.op, Get(Current.rs1), Get(Current.rs2))
           THEN Wrap(pc + Current.imm) ELSE Following
  /\ UNCHANGED <<regs, mem, mode>>

Jal ==
  /\ Fetched("jal")
  /\ regs' = Put(Current.rd, Following)
  /\ pc' = Wrap(pc + Current.imm)
  /\ UNCHANGED <<mem, mode>>

Jalr ==
  /\ Fetched("jalr")
  /\ regs' = Put(Current.rd, Following)
  /\ pc' = Even(DataAddr)
  /\ UNCHANGED <<mem, mode>>

\* The floating-point control registers always read as 0.
Csr ==
  /\ Fetched("csr") /\ Current.csr
  /\ regs' = Put(Current.rd, 0)
  /\ pc' = Following
  /\ UNCHANGED <<mem, mode>>

Fence ==
  /\ Fetched("fence")
  /\ pc' = Following
  /\ UNCHANGED <<regs, mem, mode>>

\* An ecall hands over to the environment and continues 4 bytes on.
Ecall ==
  /\ Fetched("ecall")
  /\ pc' = Wrap(pc + 4)
  /\ mode' = "call"
  /\ UNCHANGED <<regs, mem>>

\* The environment answers: only a0 and memory may change.
Answer ==
  /\ mode = "call" /\ regs[a7] \in Syscalls
  /\ \E v \in SyscallRet(regs[a7]) : regs' = Put(a0, v)
  /\ mem' \in SyscallMem(regs[a7], mem)
  /\ mode' = "run"
  /\ UNCHANGED pc

\* An access outside the mapped memory, a division that the host cannot make (which
\* RISC-V does not have, and the emulator does), an instruction or a system call
\* that is not supported, or exit.
Stop ==
  /\ \/ mode = "run" /\ ~Fetchable(pc)
     \/ Fetched("illegal")
     \/ Fetched("csr") /\ ~Current.csr
     \/ (Fetched("load") \/ Fetched("store")) /\ DataAddr \notin Addr
     \/ Fetched("alu") /\ Traps
     \/ mode = "call" /\ regs[a7] \notin Syscalls
  /\ mode' = "stop"
  /\ UNCHANGED <<pc, regs, mem>>

Execute ==
  Alu \/ Load \/ Store \/ Branch \/ Jal \/ Jalr \/ Csr \/ Fence \/ Ecall \/ Answer \/ Stop

Init ==
  /\ pc \in Addr
  /\ regs \in [Reg -> Word] /\ regs[zero] = 0
  /\ mem \in Mem
  /\ mode = "run"

Safety == Init /\ [][Execute]_archVars

\* The machine does not rest while an instruction can change its state.
Progress == WF_archVars(Execute)
=============================================================================
