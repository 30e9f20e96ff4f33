------------------------------- MODULE Interp -------------------------------
(***************************************************************************)
(* The interpreter as it runs: main's loop around machine_step, which      *)
(* loops around exec_block_interp, which decodes into one static inst_t,   *)
(* calls the handler for its type, and leaves its loop when continue_exec  *)
(* is set.  The blocks communicate through state_t: exit_reason says why a *)
(* block ended and reenter_pc where the next one starts.                   *)
(***************************************************************************)
EXTENDS Arch

CONSTANT Programs   \* the initial memories

VARIABLES pc, reenter_pc, exit_reason, regs,   \* state_t
          mem,                                 \* guest memory
          type, inst, continue_exec,           \* exec_block_interp's static inst_t
          ctl                                  \* where the program is

vars == <<pc, reenter_pc, exit_reason, regs, mem, type, inst, continue_exec, ctl>>

ASSUME ProgramsAssumption == Programs \subseteq Mem

Stopped == {"exited", "fatal", "crashed", "assert"}
Ctl == {"fetch", "exec", "block_end", "syscall"} \cup Stopped
ExitReason == {"none", "direct_branch", "indirect_branch", "ecall"}
InstAddr == {a \in Word : a % 2 = 0}

-----------------------------------------------------------------------------
(* exec_block_interp: fetch and decode.                                    *)

\* Mutant: the struct is not cleared first, so continue_exec stays set.
DecodesTo_Sticky(f) ==
  /\ type' = f.kind
  /\ continue_exec' = (continue_exec \/ f.kind \in {"jal", "jalr", "ecall"})
  /\ inst' = IF f.kind = "ecall" THEN inst ELSE f

\* decode_inst assigns the whole struct from the word it is given, except for
\* ECALL, which sets two fields and leaves the others as they were.
DecodesTo(f) ==
  /\ type' = f.kind
  /\ IF f.kind = "ecall"
     THEN continue_exec' = TRUE /\ UNCHANGED inst
     ELSE continue_exec' = (f.kind \in {"jal", "jalr"}) /\ inst' = f

Decode ==
  /\ ctl = "fetch"
  /\ Fetchable(pc)
  /\ Fields(Raw(mem, pc)).kind # "illegal"
  /\ DecodesTo(Fields(Raw(mem, pc)))
  /\ ctl' = "exec"
  /\ UNCHANGED <<pc, reenter_pc, exit_reason, regs, mem>>

\* The fetch faults, or decode_inst ends in fatal, unreachable or an assertion.
DecodeStops ==
  /\ ctl = "fetch"
  /\ ctl' = IF Fetchable(pc) THEN "fatal" ELSE "crashed"
  /\ Fetchable(pc) => Fields(Raw(mem, pc)).kind = "illegal"
  /\ UNCHANGED <<pc, reenter_pc, exit_reason, regs, mem, type, inst, continue_exec>>

-----------------------------------------------------------------------------
(* exec_block_interp: the handlers and what follows them in the loop.      *)

Executes(kind) == ctl = "exec" /\ type = kind

\* The end of the loop body: leave the block, or advance past the instruction.
\* at is state->pc and go_on is inst.continue_exec as the handler leaves them.
LoopEnd(at, go_on) ==
  IF go_on
  THEN pc' = at /\ ctl' = "block_end"
  ELSE pc' = Wrap(at + Size(inst)) /\ ctl' = "fetch"

\* Mutant: gp_regs[zero] is not reset after a write to rd.
WriteReg_NoReset(r, v) == [regs EXCEPT ![r] = v]

\* A handler's write to rd, followed by gp_regs[zero] = 0.
WriteReg(r, v) == [[regs EXCEPT ![r] = v] EXCEPT ![zero] = 0]

KeepRegs == [regs EXCEPT ![zero] = 0]

reg(r) == regs[r]
EffAddr == Wrap(regs[inst.rs1] + inst.imm)
Link == Wrap(pc + Size(inst))

\* func_divw to func_remuw divide by the lower half of rs2 after a test of all of it.
Traps == AluTraps(inst.op, Operands(inst, pc, reg))

ExecAlu ==
  /\ Executes("alu") /\ ~Traps
  /\ regs' = WriteReg(inst.rd, AluOp(inst.op, Operands(inst, pc, reg)))
  /\ LoopEnd(pc, continue_exec)
  /\ UNCHANGED <<reenter_pc, exit_reason, mem, type, inst, continue_exec>>

ExecLoad ==
  /\ Executes("load") /\ EffAddr \in Addr
  /\ regs' = WriteReg(inst.rd, LoadOp(inst.op, mem[EffAddr]))
  /\ LoopEnd(pc, continue_exec)
  /\ UNCHANGED <<reenter_pc, exit_reason, mem, type, inst, continue_exec>>

ExecStore ==
  /\ Executes("store") /\ EffAddr \in Addr
  /\ mem' = [mem EXCEPT ![EffAddr] = StoreOp(inst.op, mem[EffAddr], regs[inst.rs2])]
  /\ regs' = KeepRegs
  /\ LoopEnd(pc, continue_exec)
  /\ UNCHANGED <<reenter_pc, exit_reason, type, inst, continue_exec>>

\* A data access outside the mapped memory, or a division that raises SIGFPE.
ExecFaults ==
  /\ \/ (Executes("load") \/ Executes("store")) /\ EffAddr \notin Addr
     \/ Executes("alu") /\ Traps
  /\ ctl' = "crashed"
  /\ UNCHANGED <<pc, reenter_pc, exit_reason, regs, mem, type, inst, continue_exec>>

\* A branch that is taken also sets continue_exec in the static inst_t.
ExecBranch ==
  LET target_addr == Wrap(pc + inst.imm)
  IN  /\ Executes("branch")
      /\ regs' = KeepRegs
      /\ IF BranchTaken(inst.op, regs[inst.rs1], regs[inst.rs2])
         THEN /\ reenter_pc' = target_addr
              /\ exit_reason' = "direct_branch"
              /\ continue_exec' = TRUE
              /\ LoopEnd(target_addr, TRUE)
         ELSE /\ LoopEnd(pc, continue_exec)
              /\ UNCHANGED <<reenter_pc, exit_reason, continue_exec>>
      /\ UNCHANGED <<mem, type, inst>>

ExecJal ==
  LET target_addr == Wrap(pc + inst.imm)
  IN  /\ Executes("jal")
      /\ regs' = WriteReg(inst.rd, Link)
      /\ reenter_pc' = target_addr
      /\ exit_reason' = "direct_branch"
      /\ LoopEnd(target_addr, continue_exec)
      /\ UNCHANGED <<mem, type, inst, continue_exec>>

\* Mutant: rd is written before rs1 is read.
ExecJalr_WriteFirst ==
  /\ Executes("jalr")
  /\ regs' = WriteReg(inst.rd, Link)
  /\ reenter_pc' = Even(Wrap(regs'[inst.rs1] + inst.imm))
  /\ exit_reason' = "indirect_branch"
  /\ LoopEnd(pc, continue_exec)
  /\ UNCHANGED <<mem, type, inst, continue_exec>>

\* Mutant: the lowest bit of the target is kept (no & ~(uint64_t)1).
ExecJalr_Unmasked ==
  /\ Executes("jalr")
  /\ regs' = WriteReg(inst.rd, Link)
  /\ reenter_pc' = EffAddr
  /\ exit_reason' = "indirect_branch"
  /\ LoopEnd(pc, continue_exec)
  /\ UNCHANGED <<mem, type, inst, continue_exec>>

\* rs1 is read before rd is written; pc itself does not move.
ExecJalr ==
  /\ Executes("jalr")
  /\ regs' = WriteReg(inst.rd, Link)
  /\ reenter_pc' = Even(EffAddr)
  /\ exit_reason' = "indirect_branch"
  /\ LoopEnd(pc, continue_exec)
  /\ UNCHANGED <<mem, type, inst, continue_exec>>

ExecEcall ==
  /\ Executes("ecall")
  /\ regs' = KeepRegs
  /\ exit_reason' = "ecall"
  /\ reenter_pc' = Wrap(pc + 4)
  /\ LoopEnd(pc, continue_exec)
  /\ UNCHANGED <<mem, type, inst, continue_exec>>

\* fflags, frm and fcsr read as 0 and ignore what is written to them.
ExecCsr ==
  /\ Executes("csr") /\ inst.csr
  /\ regs' = WriteReg(inst.rd, 0)
  /\ LoopEnd(pc, continue_exec)
  /\ UNCHANGED <<reenter_pc, exit_reason, mem, type, inst, continue_exec>>

\* fatal("unsupported csr")
ExecCsrFatal ==
  /\ Executes("csr") /\ ~inst.csr
  /\ ctl' = "fatal"
  /\ UNCHANGED <<pc, reenter_pc, exit_reason, regs, mem, type, inst, continue_exec>>

ExecFence ==
  /\ Executes("fence")
  /\ regs' = KeepRegs
  /\ LoopEnd(pc, continue_exec)
  /\ UNCHANGED <<reenter_pc, exit_reason, mem, type, inst, continue_exec>>

-----------------------------------------------------------------------------
(* machine_step after a block, and main's loop.                            *)

\* Mutant: continue re-enters the dispatch and not the loop body.
Reenter_Loops ==
  /\ ctl = "block_end"
  /\ exit_reason \in {"direct_branch", "indirect_branch"}
  /\ pc' = reenter_pc
  /\ UNCHANGED <<ctl, exit_reason, reenter_pc, regs, mem, type, inst, continue_exec>>

\* A branch: the next block starts at reenter_pc.
Reenter ==
  /\ ctl = "block_end"
  /\ exit_reason \in {"direct_branch", "indirect_branch"}
  /\ pc' = reenter_pc
  /\ exit_reason' = "none"
  /\ ctl' = "fetch"
  /\ UNCHANGED <<reenter_pc, regs, mem, type, inst, continue_exec>>

\* Anything else must be an ecall.
StepReturns ==
  /\ ctl = "block_end"
  /\ exit_reason \notin {"direct_branch", "indirect_branch"}
  /\ IF exit_reason = "ecall"
     THEN ctl' = "syscall" /\ pc' = reenter_pc
     ELSE ctl' = "assert" /\ pc' = pc
  /\ UNCHANGED <<reenter_pc, exit_reason, regs, mem, type, inst, continue_exec>>

\* do_syscall finds a handler that returns; main stores its result in a0 and
\* calls machine_step again, which starts by clearing exit_reason.
DoSyscall ==
  /\ ctl = "syscall"
  /\ regs[a7] \in Syscalls
  /\ \E v \in SyscallRet(regs[a7]) : regs' = [regs EXCEPT ![a0] = v]
  /\ mem' \in SyscallMem(regs[a7], mem)
  /\ exit_reason' = "none"
  /\ ctl' = "fetch"
  /\ UNCHANGED <<pc, reenter_pc, type, inst, continue_exec>>

\* exit, or a number that is unknown or not implemented.
SyscallStops ==
  /\ ctl = "syscall"
  /\ regs[a7] \notin Syscalls
  /\ ctl' = IF regs[a7] = SysExit THEN "exited" ELSE "fatal"
  /\ UNCHANGED <<pc, reenter_pc, exit_reason, regs, mem, type, inst, continue_exec>>

Terminated == ctl \in Stopped /\ UNCHANGED vars

-----------------------------------------------------------------------------
NoInst == [kind |-> "load", op |-> 0, rd |-> zero, rs1 |-> zero, rs2 |-> zero,
           rs3 |-> zero, imm |-> 0, csr |-> FALSE, rvc |-> FALSE]

\* machine and the static inst_t start as zeroes (type 0 is lb); the program
\* is loaded and pc is its entry.
Init ==
  /\ mem \in Programs
  /\ pc \in Addr
  /\ regs = [r \in Reg |-> 0]
  /\ reenter_pc = 0 /\ exit_reason = "none"
  /\ type = "load" /\ inst = NoInst /\ continue_exec = FALSE
  /\ ctl = "fetch"

Exec ==
  \/ ExecAlu \/ ExecLoad \/ ExecStore \/ ExecFaults \/ ExecBranch
  \/ ExecJal \/ ExecJalr \/ ExecEcall \/ ExecCsr \/ ExecCsrFatal \/ ExecFence

Step ==
  \/ Decode \/ DecodeStops \/ Exec
  \/ Reenter \/ StepReturns \/ DoSyscall \/ SyscallStops

Next == Step \/ Terminated

\* One thread that waits for nothing but its own system calls.
Spec == Init /\ [][Next]_vars /\ WF_vars(Step)

-----------------------------------------------------------------------------
(* Properties.                                                             *)

\* Every variable keeps its type.  A program counter is an even word: a block is never
\* entered in the middle of a parcel, whatever register an indirect jump adds to its
\* immediate, and however branches, jumps and instructions of two lengths follow one
\* another across the end of the address space.
TypeOK ==
  /\ pc \in InstAddr /\ reenter_pc \in InstAddr
  /\ exit_reason \in ExitReason
  /\ regs \in [Reg -> Word] /\ mem \in Mem
  /\ type \in Kind /\ inst \in Inst /\ continue_exec \in BOOLEAN
  /\ ctl \in Ctl

\* No assertion of machine_step or main fails: a block is only ever left with
\* an exit reason, although continue_exec lives in a struct that survives from
\* one instruction to the next and is set in three places.
AssertsHold == ctl # "assert"

\* The architectural state that the emulator's state stands for.  Between the
\* end of a block and the next one the program counter is in reenter_pc.
ArchPc == IF ctl = "block_end" THEN reenter_pc ELSE pc

ArchMode ==
  IF ctl \in Stopped THEN "stop"
  ELSE IF ctl = "syscall" \/ (ctl = "block_end" /\ exit_reason = "ecall")
  THEN "call" ELSE "run"

Architecture == INSTANCE ISA WITH pc <- ArchPc, mode <- ArchMode

\* The emulator executes the guest's instructions one by one, each as the
\* architecture says and as the guest's memory holds it at that moment, however
\* they are cut into blocks.
RefinesISA == Architecture!Safety

\* The emulator never loops between blocks without executing an instruction.
ExecutesOn == Architecture!Progress

-----------------------------------------------------------------------------
(* The inductive invariant behind AssertsHold and RefinesISA.              *)

\* Between decode_inst and the handler the static inst_t holds the instruction at
\* pc, but for the fields that ECALL neither sets nor uses, and continue_exec is
\* set exactly for the instructions that always leave the block.
DecodedHere ==
  /\ Fetchable(pc)
  /\ type = Fields(Raw(mem, pc)).kind
  /\ type # "illegal"
  /\ type # "ecall" => inst = Fields(Raw(mem, pc))
  /\ continue_exec = (type \in {"jal", "jalr", "ecall"})

\* What each point of the two loops relies on: register zero is 0, exit_reason is
\* clear inside a block and says at its end why it was left, and what a handler
\* finds in inst belongs to the instruction at pc.
BlockProtocol ==
  /\ regs = [r \in Reg |-> regs[r]] /\ regs[zero] = 0
  /\ ctl # "assert"
  /\ ctl \in {"fetch", "exec"} => exit_reason = "none"
  /\ ctl = "exec" => DecodedHere
  /\ ctl = "block_end" => exit_reason \in ExitReason \ {"none"}
  /\ ctl = "syscall" => exit_reason = "ecall"
=============================================================================
