---------------------------- MODULE InterpProofs ----------------------------
(***************************************************************************)
(* For every register set, memory, decoder and arithmetic: the blocks and  *)
(* the static inst_t of the interpreter are invisible to the guest.        *)
(*                                                                         *)
(* BlockProtocol is inductive by itself.  RefinesISA needs it: an action   *)
(* of Interp reads the decoded inst, the one of ISA that it implements     *)
(* decodes memory afresh, and only DecodedHere says that they agree.       *)
(***************************************************************************)
EXTENDS Interp, TLAPS

-----------------------------------------------------------------------------
(* Registers.                                                              *)

\* A handler's write to rd and the reset of gp_regs[zero] keep regs a
\* function on Reg with zero holding 0.
LEMMA WriteRegKeepsZero ==
  ASSUME NEW r, NEW v,
         regs = [x \in Reg |-> regs[x]],
         regs' = WriteReg(r, v) \/ regs' = KeepRegs
  PROVE  regs' = [x \in Reg |-> regs'[x]] /\ regs'[zero] = 0
BY ArchAssumption DEF WriteReg, KeepRegs

\* The reset has no other effect: the register file behaves as if writes to
\* zero were ignored and reads of it gave 0.
LEMMA WriteRegIsPut ==
  ASSUME NEW r, NEW v,
         regs = [x \in Reg |-> regs[x]], regs[zero] = 0
  PROVE  /\ WriteReg(r, v) = Architecture!Put(r, v)
         /\ KeepRegs = regs
         /\ \A x : Architecture!Get(x) = regs[x]
<1>1. KeepRegs = regs
  BY ArchAssumption DEF KeepRegs
<1>2. \A x : Architecture!Get(x) = regs[x]
  BY DEF Architecture!Get
<1>3. WriteReg(r, v) = Architecture!Put(r, v)
  <2>1. CASE r = zero
    BY <2>1, ArchAssumption DEF WriteReg, Architecture!Put
  <2>2. CASE r # zero
    BY <2>2, ArchAssumption DEF WriteReg, Architecture!Put
  <2> QED
    BY <2>1, <2>2
<1> QED
  BY <1>1, <1>2, <1>3

-----------------------------------------------------------------------------
(* The block protocol.                                                     *)

\* The initial state obeys the protocol.
LEMMA ProtocolInit == Init => BlockProtocol
BY ArchAssumption DEF Init, BlockProtocol, DecodedHere

\* The next-state relation, disjunct by disjunct.
LEMMA NextCases ==
  ASSUME Next
  PROVE  \/ Decode \/ DecodeStops
         \/ ExecAlu \/ ExecLoad \/ ExecStore \/ ExecFaults \/ ExecBranch
         \/ ExecJal \/ ExecJalr \/ ExecEcall \/ ExecCsr \/ ExecCsrFatal \/ ExecFence
         \/ Reenter \/ StepReturns \/ DoSyscall \/ SyscallStops
         \/ Terminated
BY Zenon DEF Next, Step, Exec

\* A block that ends at fetch again leaves the protocol's other parts alone:
\* what a handler owes the loop is its exit reason.
LEMMA LoopEndProtocol ==
  ASSUME NEW at, NEW go_on, LoopEnd(at, go_on),
         regs' = [r \in Reg |-> regs'[r]], regs'[zero] = 0,
         go_on => exit_reason' \in ExitReason \ {"none"},
         ~go_on => exit_reason' = "none"
  PROVE  BlockProtocol'
BY DEF LoopEnd, BlockProtocol

\* Every step keeps the protocol.
LEMMA ProtocolStep == BlockProtocol /\ [Next]_vars => BlockProtocol'
<1> SUFFICES ASSUME BlockProtocol, [Next]_vars
             PROVE  BlockProtocol'
  OBVIOUS
<1>r. regs = [r \in Reg |-> regs[r]] /\ regs[zero] = 0
  BY DEF BlockProtocol
<1>e. ASSUME ctl = "exec"
      PROVE  /\ exit_reason = "none"
             /\ type \in {"jal", "jalr", "ecall"} => continue_exec
             /\ type \notin {"jal", "jalr", "ecall"} => ~continue_exec
  BY <1>e, Zenon DEF BlockProtocol, DecodedHere
<1>1. CASE Decode
  <2>1. Fetchable(pc)' /\ Fields(Raw(mem, pc))' = Fields(Raw(mem, pc))
    BY <1>1 DEF Decode, Fetchable, Raw
  <2>2. /\ type' = Fields(Raw(mem, pc)).kind
        /\ type' # "illegal"
        /\ type' # "ecall" => inst' = Fields(Raw(mem, pc))
    BY <1>1 DEF Decode, DecodesTo
  <2>3. continue_exec' = (type' \in {"jal", "jalr", "ecall"})
    <3>1. CASE type' = "ecall"
      BY <1>1, <2>2, <3>1 DEF Decode, DecodesTo
    <3>2. CASE type' # "ecall"
      BY <1>1, <2>2, <3>2 DEF Decode, DecodesTo
    <3> QED
      BY <3>1, <3>2
  <2>4. DecodedHere'
    BY <2>1, <2>2, <2>3, Zenon DEF DecodedHere
  <2> QED
    BY <1>1, <1>r, <2>4 DEF Decode, BlockProtocol
<1>2. CASE DecodeStops
  BY <1>2 DEF DecodeStops, BlockProtocol
<1>3. CASE ExecAlu
  <2>1. regs' = [r \in Reg |-> regs'[r]] /\ regs'[zero] = 0
    BY <1>3, <1>r, WriteRegKeepsZero DEF ExecAlu
  <2>2. ~continue_exec /\ exit_reason' = "none"
    BY <1>3, <1>e DEF ExecAlu, Executes
  <2> QED
    BY <1>3, <2>1, <2>2, LoopEndProtocol DEF ExecAlu
<1>4. CASE ExecLoad
  <2>1. regs' = [r \in Reg |-> regs'[r]] /\ regs'[zero] = 0
    BY <1>4, <1>r, WriteRegKeepsZero DEF ExecLoad
  <2>2. ~continue_exec /\ exit_reason' = "none"
    BY <1>4, <1>e DEF ExecLoad, Executes
  <2> QED
    BY <1>4, <2>1, <2>2, LoopEndProtocol DEF ExecLoad
<1>5. CASE ExecStore
  <2>1. regs' = [r \in Reg |-> regs'[r]] /\ regs'[zero] = 0
    BY <1>5, <1>r, WriteRegKeepsZero DEF ExecStore
  <2>2. ~continue_exec /\ exit_reason' = "none"
    BY <1>5, <1>e DEF ExecStore, Executes
  <2> QED
    BY <1>5, <2>1, <2>2, LoopEndProtocol DEF ExecStore
<1>6. CASE ExecFaults
  BY <1>6 DEF ExecFaults, BlockProtocol
<1>7. CASE ExecBranch
  <2>1. regs' = [r \in Reg |-> regs'[r]] /\ regs'[zero] = 0
    BY <1>7, <1>r, WriteRegKeepsZero DEF ExecBranch
  <2>2. CASE BranchTaken(inst.op, regs[inst.rs1], regs[inst.rs2])
    <3>1. exit_reason' \in ExitReason \ {"none"} /\ LoopEnd(Wrap(pc + inst.imm), TRUE)
      BY <1>7, <2>2 DEF ExecBranch, ExitReason
    <3> QED
      BY <2>1, <3>1, LoopEndProtocol
  <2>3. CASE ~BranchTaken(inst.op, regs[inst.rs1], regs[inst.rs2])
    <3>1. ~continue_exec /\ exit_reason' = "none" /\ LoopEnd(pc, continue_exec)
      BY <1>7, <1>e, <2>3 DEF ExecBranch, Executes
    <3> QED
      BY <2>1, <3>1, LoopEndProtocol
  <2> QED
    BY <2>2, <2>3
<1>8. CASE ExecJal
  <2>1. regs' = [r \in Reg |-> regs'[r]] /\ regs'[zero] = 0
    BY <1>8, <1>r, WriteRegKeepsZero DEF ExecJal
  <2>2. exit_reason' \in ExitReason \ {"none"}
    BY <1>8 DEF ExecJal, ExitReason
  <2>3. continue_exec
    BY <1>8, <1>e, Zenon DEF ExecJal, Executes
  <2> QED
    BY <1>8, <2>1, <2>2, <2>3, LoopEndProtocol DEF ExecJal
<1>9. CASE ExecJalr
  <2>1. regs' = [r \in Reg |-> regs'[r]] /\ regs'[zero] = 0
    BY <1>9, <1>r, WriteRegKeepsZero DEF ExecJalr
  <2>2. exit_reason' \in ExitReason \ {"none"}
    BY <1>9 DEF ExecJalr, ExitReason
  <2>3. continue_exec
    BY <1>9, <1>e, Zenon DEF ExecJalr, Executes
  <2> QED
    BY <1>9, <2>1, <2>2, <2>3, LoopEndProtocol DEF ExecJalr
<1>10. CASE ExecEcall
  <2>1. regs' = [r \in Reg |-> regs'[r]] /\ regs'[zero] = 0
    BY <1>10, <1>r, WriteRegKeepsZero DEF ExecEcall
  <2>2. exit_reason' \in ExitReason \ {"none"}
    BY <1>10 DEF ExecEcall, ExitReason
  <2>3. continue_exec
    BY <1>10, <1>e, Zenon DEF ExecEcall, Executes
  <2> QED
    BY <1>10, <2>1, <2>2, <2>3, LoopEndProtocol DEF ExecEcall
<1>11. CASE ExecCsr
  <2>1. regs' = [r \in Reg |-> regs'[r]] /\ regs'[zero] = 0
    BY <1>11, <1>r, WriteRegKeepsZero DEF ExecCsr
  <2>2. ~continue_exec /\ exit_reason' = "none"
    BY <1>11, <1>e DEF ExecCsr, Executes
  <2> QED
    BY <1>11, <2>1, <2>2, LoopEndProtocol DEF ExecCsr
<1>12. CASE ExecCsrFatal
  BY <1>12 DEF ExecCsrFatal, BlockProtocol
<1>13. CASE ExecFence
  <2>1. regs' = [r \in Reg |-> regs'[r]] /\ regs'[zero] = 0
    BY <1>13, <1>r, WriteRegKeepsZero DEF ExecFence
  <2>2. ~continue_exec /\ exit_reason' = "none"
    BY <1>13, <1>e DEF ExecFence, Executes
  <2> QED
    BY <1>13, <2>1, <2>2, LoopEndProtocol DEF ExecFence
<1>14. CASE Reenter
  BY <1>14 DEF Reenter, BlockProtocol
<1>15. CASE StepReturns
  BY <1>15 DEF StepReturns, BlockProtocol, ExitReason
<1>16. CASE DoSyscall
  <2>1. regs' = [r \in Reg |-> regs'[r]] /\ regs'[zero] = 0
    BY <1>16, <1>r, ArchAssumption DEF DoSyscall
  <2> QED
    BY <1>16, <2>1 DEF DoSyscall, BlockProtocol
<1>17. CASE SyscallStops
  BY <1>17 DEF SyscallStops, BlockProtocol
<1>18. CASE Terminated \/ UNCHANGED vars
  BY <1>18 DEF Terminated, vars, BlockProtocol, DecodedHere
<1> QED
  BY <1>1, <1>2, <1>3, <1>4, <1>5, <1>6, <1>7, <1>8, <1>9, <1>10, <1>11, <1>12,
     <1>13, <1>14, <1>15, <1>16, <1>17, <1>18, NextCases

\* BlockProtocol holds in every reachable state.
THEOREM ProtocolInvariant == Spec => []BlockProtocol
BY ProtocolInit, ProtocolStep, PTL DEF Spec

\* No assertion of machine_step or main can fail.
THEOREM AssertsSafe == Spec => []AssertsHold
<1>1. BlockProtocol => AssertsHold
  BY DEF BlockProtocol, AssertsHold
<1> QED
  BY <1>1, ProtocolInvariant, PTL

-----------------------------------------------------------------------------
(* The interpreter implements the architecture.                            *)

\* The operators of Arch mean the same in both specifications.
LEMMA SameArch ==
  /\ Architecture!Word = Word /\ Architecture!Mem = Mem
  /\ \A x : Architecture!Wrap(x) = Wrap(x)
  /\ \A x : Architecture!Even(x) = Even(x)
  /\ \A x : Architecture!Size(x) = Size(x)
  /\ \A x : Architecture!Fetchable(x) <=> Fetchable(x)
  /\ \A m, x : Architecture!Raw(m, x) = Raw(m, x)
BY DEF Architecture!Word, Word, Architecture!Mem, Mem, Architecture!Wrap, Wrap,
       Architecture!Even, Even, Architecture!Size, Size,
       Architecture!Fetchable, Fetchable, Architecture!Raw, Raw

\* Initial states map to initial states.
LEMMA RefinementInit == Init => Architecture!Init
<1> SUFFICES ASSUME Init
             PROVE  Architecture!Init
  OBVIOUS
<1>1. ArchPc \in Addr /\ ArchMode = "run"
  BY DEF Init, ArchPc, ArchMode, Stopped
<1>2. 0 \in Word
  BY WordAssumption DEF Word
<1> QED
  BY <1>1, <1>2, SameArch, ArchAssumption, ProgramsAssumption DEF Init, Architecture!Init

\* Before a handler runs, the architecture is about to execute the instruction
\* that inst holds, and reads the same registers.
LEMMA HandlerAgrees ==
  ASSUME BlockProtocol, ctl = "exec", type # "ecall"
  PROVE  /\ ArchPc = pc /\ ArchMode = "run"
         /\ Architecture!Current = inst
         /\ Architecture!Fetched(type)
         /\ Architecture!Following = Link
         /\ Architecture!DataAddr = EffAddr
<1>1. ArchPc = pc /\ ArchMode = "run"
  BY DEF ArchPc, ArchMode, Stopped
<1>2. Architecture!Current = inst /\ Fetchable(pc) /\ inst.kind = type
  BY <1>1, SameArch DEF BlockProtocol, DecodedHere, Architecture!Current
<1>3. Architecture!Fetched(type)
  BY <1>1, <1>2, SameArch DEF Architecture!Fetched
<1>4. Architecture!Following = Link
  BY <1>1, <1>2, SameArch DEF Architecture!Following, Link
<1>5. Architecture!DataAddr = EffAddr
  <2>1. Architecture!Get(inst.rs1) = regs[inst.rs1]
    BY WriteRegIsPut DEF BlockProtocol
  <2> QED
    BY <1>2, <2>1, SameArch DEF Architecture!DataAddr, EffAddr
<1> QED
  BY <1>1, <1>2, <1>3, <1>4, <1>5

\* How the loop end shows: a block that goes on has moved past inst, one that
\* is left is already where the next block starts, or in the system call.
LEMMA LoopEndMaps ==
  ASSUME NEW at, NEW go_on, LoopEnd(at, go_on)
  PROVE  /\ ~go_on => ArchPc' = Wrap(at + Size(inst)) /\ ArchMode' = "run"
         /\ go_on => ArchPc' = reenter_pc'
         /\ go_on /\ exit_reason' = "ecall" => ArchMode' = "call"
         /\ go_on /\ exit_reason' # "ecall" => ArchMode' = "run"
BY DEF LoopEnd, ArchPc, ArchMode, Stopped

\* Every handler is one step of the architecture.
LEMMA HandlerRefines ==
  ASSUME BlockProtocol, Exec
  PROVE  Architecture!Execute
<1>r. regs = [r \in Reg |-> regs[r]] /\ regs[zero] = 0
  BY DEF BlockProtocol
<1>g. /\ \A r, v : WriteReg(r, v) = Architecture!Put(r, v)
      /\ KeepRegs = regs
      /\ \A r : Architecture!Get(r) = regs[r]
  BY <1>r, WriteRegIsPut
<1>o. \A x : Architecture!Operands(x, pc, Architecture!Get) = Operands(x, pc, reg)
  BY <1>g DEF Architecture!Operands, Operands, reg
<1>c. ASSUME ctl = "exec"
      PROVE  /\ type \in {"jal", "jalr", "ecall"} => continue_exec
             /\ type \notin {"jal", "jalr", "ecall"} => ~continue_exec
  BY <1>c, Zenon DEF BlockProtocol, DecodedHere
<1>t. ASSUME ctl = "exec", type = "alu"
      PROVE  Architecture!Traps <=> Traps
  <2>1. Architecture!Current = inst /\ ArchPc = pc
    BY <1>t, HandlerAgrees
  <2>2. Architecture!Operands(Architecture!Current, ArchPc, Architecture!Get)
          = Operands(inst, pc, reg)
    BY <1>o, <2>1
  <2> QED
    BY <2>1, <2>2 DEF Architecture!Traps, Traps
<1>1. CASE ExecAlu
  <2>1. ctl = "exec" /\ type = "alu" /\ ~continue_exec
    BY <1>1, <1>c DEF ExecAlu, Executes
  <2>2. ArchPc' = Link /\ ArchMode' = "run"
    BY <1>1, <2>1, LoopEndMaps DEF ExecAlu, Link
  <2>3. regs' = Architecture!Put(inst.rd, AluOp(inst.op, Operands(inst, pc, reg)))
    BY <1>1, <1>g DEF ExecAlu
  <2>4. ~Architecture!Traps
    BY <1>1, <1>t, <2>1 DEF ExecAlu
  <2>5. Architecture!Alu
    BY <1>1, <2>1, <2>2, <2>3, <2>4, <1>o, HandlerAgrees DEF ExecAlu, Architecture!Alu
  <2> QED
    BY <2>5 DEF Architecture!Execute
<1>2. CASE ExecLoad
  <2>1. ctl = "exec" /\ type = "load" /\ ~continue_exec
    BY <1>2, <1>c DEF ExecLoad, Executes
  <2>2. ArchPc' = Link /\ ArchMode' = "run"
    BY <1>2, <2>1, LoopEndMaps DEF ExecLoad, Link
  <2>3. regs' = Architecture!Put(inst.rd, LoadOp(inst.op, mem[EffAddr]))
    BY <1>2, <1>g DEF ExecLoad
  <2>4. Architecture!Load
    BY <1>2, <2>1, <2>2, <2>3, HandlerAgrees DEF ExecLoad, Architecture!Load
  <2> QED
    BY <2>4 DEF Architecture!Execute
<1>3. CASE ExecStore
  <2>1. ctl = "exec" /\ type = "store" /\ ~continue_exec
    BY <1>3, <1>c DEF ExecStore, Executes
  <2>2. ArchPc' = Link /\ ArchMode' = "run"
    BY <1>3, <2>1, LoopEndMaps DEF ExecStore, Link
  <2>3. regs' = regs /\ Architecture!Get(inst.rs2) = regs[inst.rs2]
    BY <1>3, <1>g DEF ExecStore
  <2>4. Architecture!Store
    BY <1>3, <2>1, <2>2, <2>3, HandlerAgrees DEF ExecStore, Architecture!Store
  <2> QED
    BY <2>4 DEF Architecture!Execute
<1>4. CASE ExecFaults
  <2>1. ctl = "exec" /\ ArchPc' = pc /\ ArchMode' = "stop"
    BY <1>4 DEF ExecFaults, Executes, ArchPc, ArchMode, Stopped
  <2>2. Architecture!Stop
    <3>1. CASE type \in {"load", "store"} /\ EffAddr \notin Addr
      BY <1>4, <2>1, <3>1, HandlerAgrees DEF ExecFaults, Architecture!Stop
    <3>2. CASE type = "alu" /\ Traps
      <4>1. Architecture!Traps
        BY <1>t, <2>1, <3>2
      <4> QED
        BY <1>4, <2>1, <3>2, <4>1, HandlerAgrees DEF ExecFaults, Architecture!Stop
    <3> QED
      BY <1>4, <3>1, <3>2 DEF ExecFaults, Executes
  <2> QED
    BY <2>2 DEF Architecture!Execute
<1>5. CASE ExecBranch
  <2>1. ctl = "exec" /\ type = "branch" /\ ~continue_exec
    BY <1>5, <1>c DEF ExecBranch, Executes
  <2>2. ArchPc = pc /\ ArchMode = "run" /\ Architecture!Current = inst
        /\ Architecture!Fetched("branch") /\ Architecture!Following = Link
    BY <2>1, HandlerAgrees
  <2>3. /\ Architecture!Get(inst.rs1) = regs[inst.rs1]
        /\ Architecture!Get(inst.rs2) = regs[inst.rs2]
        /\ regs' = regs
    BY <1>5, <1>g DEF ExecBranch
  <2>4. CASE BranchTaken(inst.op, regs[inst.rs1], regs[inst.rs2])
    <3>1. reenter_pc' = Wrap(pc + inst.imm) /\ exit_reason' = "direct_branch"
          /\ LoopEnd(Wrap(pc + inst.imm), TRUE)
      BY <1>5, <2>4 DEF ExecBranch
    <3>2. ArchPc' = Wrap(pc + inst.imm) /\ ArchMode' = "run"
      BY <3>1, LoopEndMaps
    <3>3. Architecture!Branch
      BY <1>5, <2>2, <2>3, <2>4, <3>2, SameArch DEF ExecBranch, Architecture!Branch
    <3> QED
      BY <3>3 DEF Architecture!Execute
  <2>5. CASE ~BranchTaken(inst.op, regs[inst.rs1], regs[inst.rs2])
    <3>1. LoopEnd(pc, continue_exec)
      BY <1>5, <2>5 DEF ExecBranch
    <3>2. ArchPc' = Link /\ ArchMode' = "run"
      BY <2>1, <3>1, LoopEndMaps DEF Link
    <3>3. Architecture!Branch
      BY <1>5, <2>2, <2>3, <2>5, <3>2 DEF ExecBranch, Architecture!Branch
    <3> QED
      BY <3>3 DEF Architecture!Execute
  <2> QED
    BY <2>4, <2>5
<1>6. CASE ExecJal
  <2>1. ctl = "exec" /\ type = "jal"
    BY <1>6 DEF ExecJal, Executes
  <2>2. continue_exec
    BY <1>c, <2>1, Zenon
  <2>3. ArchPc' = Wrap(pc + inst.imm) /\ ArchMode' = "run"
    BY <1>6, <2>2, LoopEndMaps DEF ExecJal
  <2>4. regs' = Architecture!Put(inst.rd, Link)
    BY <1>6, <1>g DEF ExecJal
  <2>5. Architecture!Jal
    BY <1>6, <2>1, <2>3, <2>4, HandlerAgrees, SameArch DEF ExecJal, Architecture!Jal
  <2> QED
    BY <2>5 DEF Architecture!Execute
<1>7. CASE ExecJalr
  <2>1. ctl = "exec" /\ type = "jalr"
    BY <1>7 DEF ExecJalr, Executes
  <2>2. continue_exec
    BY <1>c, <2>1, Zenon
  <2>3. ArchPc' = Even(EffAddr) /\ ArchMode' = "run"
    BY <1>7, <2>2, LoopEndMaps DEF ExecJalr
  <2>4. regs' = Architecture!Put(inst.rd, Link)
    BY <1>7, <1>g DEF ExecJalr
  <2>5. Architecture!Jalr
    BY <1>7, <2>1, <2>3, <2>4, HandlerAgrees, SameArch DEF ExecJalr, Architecture!Jalr
  <2> QED
    BY <2>5 DEF Architecture!Execute
<1>8. CASE ExecEcall
  <2>1. ctl = "exec" /\ type = "ecall"
    BY <1>8 DEF ExecEcall, Executes
  <2>2. continue_exec
    BY <1>c, <2>1, Zenon
  <2>3. ArchPc' = Wrap(pc + 4) /\ ArchMode' = "call"
    BY <1>8, <2>2, LoopEndMaps DEF ExecEcall
  <2>4. ArchPc = pc /\ ArchMode = "run"
    BY <2>1 DEF ArchPc, ArchMode, Stopped
  <2>5. Architecture!Fetched("ecall")
    BY <2>1, <2>4, SameArch
       DEF BlockProtocol, DecodedHere, Architecture!Fetched, Architecture!Current
  <2>6. Architecture!Ecall
    BY <1>8, <1>g, <2>3, <2>4, <2>5, SameArch DEF ExecEcall, Architecture!Ecall
  <2> QED
    BY <2>6 DEF Architecture!Execute
<1>9. CASE ExecCsr
  <2>1. ctl = "exec" /\ type = "csr" /\ ~continue_exec
    BY <1>9, <1>c DEF ExecCsr, Executes
  <2>2. ArchPc' = Link /\ ArchMode' = "run"
    BY <1>9, <2>1, LoopEndMaps DEF ExecCsr, Link
  <2>3. regs' = Architecture!Put(inst.rd, 0)
    BY <1>9, <1>g DEF ExecCsr
  <2>4. Architecture!Csr
    BY <1>9, <2>1, <2>2, <2>3, HandlerAgrees DEF ExecCsr, Architecture!Csr
  <2> QED
    BY <2>4 DEF Architecture!Execute
<1>10. CASE ExecCsrFatal
  <2>1. ctl = "exec" /\ type = "csr" /\ ArchPc' = pc /\ ArchMode' = "stop"
    BY <1>10 DEF ExecCsrFatal, Executes, ArchPc, ArchMode, Stopped
  <2>2. Architecture!Stop
    BY <1>10, <2>1, HandlerAgrees DEF ExecCsrFatal, Architecture!Stop
  <2> QED
    BY <2>2 DEF Architecture!Execute
<1>11. CASE ExecFence
  <2>1. ctl = "exec" /\ type = "fence" /\ ~continue_exec
    BY <1>11, <1>c DEF ExecFence, Executes
  <2>2. ArchPc' = Link /\ ArchMode' = "run"
    BY <1>11, <2>1, LoopEndMaps DEF ExecFence, Link
  <2>3. Architecture!Fence
    BY <1>11, <1>g, <2>1, <2>2, HandlerAgrees DEF ExecFence, Architecture!Fence
  <2> QED
    BY <2>3 DEF Architecture!Execute
<1> QED
  BY <1>1, <1>2, <1>3, <1>4, <1>5, <1>6, <1>7, <1>8, <1>9, <1>10, <1>11 DEF Exec

\* Every step of the emulator is a step of the architecture or is invisible.
LEMMA RefinementStep ==
  BlockProtocol /\ [Next]_vars => [Architecture!Execute]_(Architecture!archVars)
<1> SUFFICES ASSUME BlockProtocol, [Next]_vars
             PROVE  Architecture!Execute \/ UNCHANGED Architecture!archVars
  BY DEF Architecture!archVars
<1>1. CASE Exec
  BY <1>1, HandlerRefines
<1>2. CASE Decode
  <2>1. UNCHANGED <<ArchPc, ArchMode, regs, mem>>
    BY <1>2 DEF Decode, ArchPc, ArchMode, Stopped
  <2> QED
    BY <2>1 DEF Architecture!archVars
<1>3. CASE DecodeStops
  <2>1. ArchPc = pc /\ ArchMode = "run" /\ ArchPc' = pc /\ ArchMode' = "stop"
    BY <1>3 DEF DecodeStops, ArchPc, ArchMode, Stopped
  <2>2. Architecture!Stop
    BY <1>3, <2>1, SameArch
       DEF DecodeStops, Architecture!Stop, Architecture!Fetched, Architecture!Current
  <2> QED
    BY <2>2 DEF Architecture!Execute
<1>4. CASE Reenter
  <2>1. UNCHANGED <<ArchPc, ArchMode, regs, mem>>
    BY <1>4 DEF Reenter, ArchPc, ArchMode, Stopped
  <2> QED
    BY <2>1 DEF Architecture!archVars
<1>5. CASE StepReturns
  <2>1. exit_reason = "ecall"
    BY <1>5 DEF StepReturns, BlockProtocol, ExitReason
  <2>2. UNCHANGED <<ArchPc, ArchMode, regs, mem>>
    BY <1>5, <2>1 DEF StepReturns, ArchPc, ArchMode, Stopped
  <2> QED
    BY <2>2 DEF Architecture!archVars
<1>6. CASE DoSyscall
  <2>1. ArchPc' = ArchPc /\ ArchMode = "call" /\ ArchMode' = "run"
    BY <1>6 DEF DoSyscall, ArchPc, ArchMode, Stopped
  <2>2. PICK v \in SyscallRet(regs[a7]) : regs' = [regs EXCEPT ![a0] = v]
    BY <1>6 DEF DoSyscall
  <2>3. regs' = Architecture!Put(a0, v)
    BY <2>2, ArchAssumption DEF Architecture!Put
  <2>4. Architecture!Answer
    BY <1>6, <2>1, <2>3 DEF DoSyscall, Architecture!Answer
  <2> QED
    BY <2>4 DEF Architecture!Execute
<1>7. CASE SyscallStops
  <2>1. ArchPc' = ArchPc /\ ArchMode = "call" /\ ArchMode' = "stop"
    BY <1>7 DEF SyscallStops, ArchPc, ArchMode, Stopped
  <2>2. Architecture!Stop
    BY <1>7, <2>1 DEF SyscallStops, Architecture!Stop
  <2> QED
    BY <2>2 DEF Architecture!Execute
<1>8. CASE Terminated \/ UNCHANGED vars
  BY <1>8 DEF Terminated, vars, Architecture!archVars, ArchPc, ArchMode
<1> QED
  BY <1>1, <1>2, <1>3, <1>4, <1>5, <1>6, <1>7, <1>8, Zenon DEF Next, Step

\* The interpreter implements the architecture: exec_block_interp, its static
\* inst_t, exit_reason and reenter_pc are an implementation detail.
THEOREM InterpreterRefinesISA == Spec => RefinesISA
BY RefinementInit, RefinementStep, ProtocolInvariant, PTL
   DEF Spec, RefinesISA, Architecture!Safety

-----------------------------------------------------------------------------
(* Types.                                                                  *)

\* The parameters are functions of the machine: computing and loading give words,
\* storing gives a cell, a system call returns a word, and cells lie at even
\* addresses.  Of the decoder, only that the immediates of branches and jal are even
\* (DecodeProofs.ImmediatesRight has it for decode_inst).
TypedOperations ==
  /\ \A op \in Nat : \A o \in [pc : Word, imm : Int, rd : Word, rs1 : Word, rs2 : Word,
                               rs3 : Word] : ~AluTraps(op, o) => AluOp(op, o) \in Word
  /\ \A op \in Nat : \A c \in Cell : LoadOp(op, c) \in Word
  /\ \A op \in Nat : \A c \in Cell : \A v \in Word : StoreOp(op, c, v) \in Cell
  /\ \A n \in Syscalls : SyscallRet(n) \subseteq Word
  /\ \A a \in Addr : a % 2 = 0
  /\ \A c, d \in Cell :
       Fields(<<c, d>>).kind \in {"branch", "jal"} => Fields(<<c, d>>).imm % 2 = 0

\* Sums are words again.
LEMMA WordSums ==
  /\ 0 \in Word
  /\ \A x, y \in Int : Wrap(x + y) \in Word
  /\ \A x \in Word : x \in Int
  /\ \A i : Size(i) \in Int
BY WordAssumption DEF Word, Wrap, Size

\* The address space is even, so an even distance from an instruction address leads to
\* one, around the end of the address space too; clearing the lowest bit always does.
LEMMA EvenSums ==
  /\ 0 \in InstAddr
  /\ \A x \in InstAddr : x \in Word
  /\ \A x \in InstAddr : \A y \in Int : y % 2 = 0 => Wrap(x + y) \in InstAddr
  /\ \A x \in InstAddr : \A i : Wrap(x + Size(i)) \in InstAddr
  /\ \A x \in InstAddr : Wrap(x + 4) \in InstAddr
  /\ \A x \in Word : Even(x) \in InstAddr
<1>1. ASSUME NEW x \in InstAddr, NEW y \in Int, y % 2 = 0
      PROVE  Wrap(x + y) \in InstAddr
  <2>1. x \in Int /\ x % 2 = 0
    BY WordSums DEF InstAddr
  <2>2. Wrap(x + y) \in Word
    BY <1>1, <2>1, WordSums
  <2>3. (x + y) % 2 = 0
    BY <1>1, <2>1
  <2>4. PICK z \in Int : z = x + y
    BY <2>1
  <2>5. PICK q \in Int : q = z \div AddrSpace
    BY WordAssumption
  <2>6. Wrap(z) = z - AddrSpace * q
    BY <2>5, WordAssumption DEF Wrap
  <2>7. PICK h \in Int : h = AddrSpace \div 2
    BY WordAssumption
  <2>8. AddrSpace = 2 * h
    BY <2>7, WordAssumption, ArchAssumption
  <2>9. PICK p \in Int : p = h * q
    OBVIOUS
  <2>10. AddrSpace * q = 2 * p
    BY <2>8, <2>9
  <2>11. Wrap(z) = z - 2 * p /\ z % 2 = 0
    BY <2>3, <2>4, <2>6, <2>10
  <2>12. Wrap(x + y) % 2 = 0
    BY <2>4, <2>11
  <2> QED
    BY <2>2, <2>12 DEF InstAddr
<1>2. \A i : Size(i) \in {2, 4}
  BY DEF Size
<1>3. \A x \in Word : Even(x) \in InstAddr
  BY WordAssumption DEF Word, Even, InstAddr
<1>4. 0 \in InstAddr /\ \A x \in InstAddr : x \in Word
  BY WordSums DEF InstAddr
<1>5. \A x \in InstAddr : \A i : Wrap(x + Size(i)) \in InstAddr
  BY <1>1, <1>2
<1>6. \A x \in InstAddr : Wrap(x + 4) \in InstAddr
  BY <1>1
<1> QED
  BY <1>1, <1>3, <1>4, <1>5, <1>6

\* A handler's write to rd keeps the register file's type.
LEMMA WriteRegType ==
  ASSUME regs \in [Reg -> Word], NEW r, NEW v \in Word
  PROVE  WriteReg(r, v) \in [Reg -> Word] /\ KeepRegs \in [Reg -> Word]
BY WordSums DEF WriteReg, KeepRegs

\* The loop end moves pc from an instruction address to another.
LEMMA LoopEndType ==
  ASSUME NEW at \in InstAddr, NEW go_on, LoopEnd(at, go_on)
  PROVE  pc' \in InstAddr /\ ctl' \in Ctl
BY EvenSums DEF LoopEnd, Ctl

\* The handler of a branch or of jal finds an even immediate in inst.
LEMMA EvenImmediates ==
  ASSUME TypedOperations, TypeOK, BlockProtocol, ctl = "exec", type \in {"branch", "jal"}
  PROVE  inst.imm % 2 = 0
<1>1. Fetchable(pc) /\ inst = Fields(Raw(mem, pc)) /\ type = Fields(Raw(mem, pc)).kind
  BY DEF BlockProtocol, DecodedHere
<1>2. mem[pc] \in Cell /\ mem[Wrap(pc + 2)] \in Cell
  BY <1>1 DEF TypeOK, Fetchable, Mem
<1>3. inst = Fields(<<mem[pc], mem[Wrap(pc + 2)]>>) /\ inst.kind \in {"branch", "jal"}
  BY <1>1 DEF Raw
<1> QED
  BY <1>2, <1>3 DEF TypedOperations

LEMMA TypeInit ==
  ASSUME TypedOperations
  PROVE  Init => TypeOK
<1> SUFFICES ASSUME Init PROVE TypeOK
  OBVIOUS
<1>1. NoInst \in Inst
  BY ArchAssumption DEF NoInst, Inst, Kind
<1>2. pc \in InstAddr /\ reenter_pc \in InstAddr
  BY ArchAssumption, EvenSums DEF Init, TypedOperations, InstAddr
<1>3. mem \in Mem /\ regs \in [Reg -> Word]
  BY ProgramsAssumption, WordSums DEF Init
<1> QED
  BY <1>1, <1>2, <1>3 DEF Init, TypeOK, ExitReason, Kind, Ctl

\* Every step keeps the types.
LEMMA TypeStep ==
  ASSUME TypedOperations, TypeOK, BlockProtocol, [Next]_vars
  PROVE  TypeOK'
<1>t. /\ pc \in InstAddr /\ reenter_pc \in InstAddr /\ regs \in [Reg -> Word] /\ mem \in Mem
      /\ inst \in Inst /\ type \in Kind /\ continue_exec \in BOOLEAN
      /\ exit_reason \in ExitReason /\ ctl \in Ctl
  BY DEF TypeOK
<1>i. /\ inst.op \in Nat /\ inst.imm \in Int
      /\ {inst.rd, inst.rs1, inst.rs2, inst.rs3} \subseteq Reg
  BY <1>t DEF Inst
<1>r. \A r \in Reg : regs[r] \in Word /\ regs[r] \in Int
  BY <1>t, WordSums
<1>a. EffAddr \in Word /\ Link \in Word
  BY <1>t, <1>i, <1>r, WordSums, EvenSums DEF EffAddr, Link
<1>b. ASSUME ctl = "exec", type \in {"branch", "jal"}
      PROVE  Wrap(pc + inst.imm) \in InstAddr
  BY <1>b, <1>t, <1>i, EvenImmediates, EvenSums
<1>w. ASSUME NEW r, NEW v \in Word
      PROVE  WriteReg(r, v) \in [Reg -> Word] /\ KeepRegs \in [Reg -> Word]
  BY <1>t, WriteRegType
<1>k. KeepRegs \in [Reg -> Word]
  BY <1>w, WordSums
<1>1. CASE Decode
  <2>1. mem[pc] \in Cell /\ mem[Wrap(pc + 2)] \in Cell
    BY <1>1, <1>t DEF Decode, Fetchable, Mem
  <2>2. Fields(Raw(mem, pc)) \in Inst
    BY <2>1, ArchAssumption DEF Raw
  <2>3. Fields(Raw(mem, pc)).kind \in Kind
    BY <2>2 DEF Inst
  <2>4. DecodesTo(Fields(Raw(mem, pc)))
        /\ ctl' \in Ctl /\ UNCHANGED <<pc, reenter_pc, exit_reason, regs, mem>>
    BY <1>1 DEF Decode, Ctl
  <2>5. type' \in Kind /\ inst' \in Inst
    BY <1>t, <2>2, <2>3, <2>4 DEF DecodesTo
  <2>6. continue_exec' \in BOOLEAN
    <3> DEFINE kind == Fields(Raw(mem, pc)).kind
    <3>1. CASE kind \in {"ecall", "jal", "jalr"}
      <4>1. continue_exec' = TRUE
        BY <2>4, <3>1 DEF DecodesTo
      <4> QED
        BY <4>1
    <3>2. CASE kind \notin {"ecall", "jal", "jalr"}
      <4>1. (kind \in {"jal", "jalr"}) = FALSE
        BY <3>2
      <4>2. continue_exec' = (kind \in {"jal", "jalr"})
        BY <2>4, <3>2, Zenon DEF DecodesTo
      <4>3. continue_exec' = FALSE
        BY <4>1, <4>2, Zenon
      <4> QED
        BY <4>3
    <3> QED
      BY <3>1, <3>2
  <2> QED
    BY <1>t, <2>4, <2>5, <2>6 DEF TypeOK
<1>2. CASE DecodeStops
  BY <1>2, <1>t DEF DecodeStops, TypeOK, Ctl, Stopped
<1>3. CASE ExecAlu
  <2>1. Operands(inst, pc, reg)
          \in [pc : Word, imm : Int, rd : Word, rs1 : Word, rs2 : Word, rs3 : Word]
    BY <1>t, <1>i, <1>r, EvenSums DEF Operands, reg
  <2>2. AluOp(inst.op, Operands(inst, pc, reg)) \in Word
    BY <1>3, <1>i, <2>1 DEF TypedOperations, ExecAlu, Traps
  <2>3. regs' \in [Reg -> Word] /\ pc' \in InstAddr /\ ctl' \in Ctl
    BY <1>3, <1>t, <1>w, <2>2, LoopEndType DEF ExecAlu
  <2> QED
    BY <1>3, <1>t, <2>3 DEF ExecAlu, TypeOK
<1>4. CASE ExecLoad
  <2>1. LoadOp(inst.op, mem[EffAddr]) \in Word
    BY <1>4, <1>t, <1>i DEF ExecLoad, TypedOperations, Mem
  <2>2. regs' \in [Reg -> Word] /\ pc' \in InstAddr /\ ctl' \in Ctl
    BY <1>4, <1>t, <1>w, <2>1, LoopEndType DEF ExecLoad
  <2> QED
    BY <1>4, <1>t, <2>2 DEF ExecLoad, TypeOK
<1>5. CASE ExecStore
  <2>1. StoreOp(inst.op, mem[EffAddr], regs[inst.rs2]) \in Cell
    BY <1>5, <1>t, <1>i, <1>r DEF ExecStore, TypedOperations, Mem
  <2>2. mem' \in Mem
    BY <1>5, <1>t, <2>1 DEF ExecStore, Mem
  <2>3. regs' \in [Reg -> Word] /\ pc' \in InstAddr /\ ctl' \in Ctl
    BY <1>5, <1>t, <1>k, LoopEndType DEF ExecStore
  <2> QED
    BY <1>5, <1>t, <2>2, <2>3 DEF ExecStore, TypeOK
<1>6. CASE ExecFaults
  BY <1>6, <1>t DEF ExecFaults, TypeOK, Ctl, Stopped
<1>7. CASE ExecBranch
  <2>1. regs' \in [Reg -> Word] /\ UNCHANGED <<mem, type, inst>>
        /\ Wrap(pc + inst.imm) \in InstAddr
    BY <1>7, <1>b, <1>k DEF ExecBranch, Executes
  <2>2. CASE BranchTaken(inst.op, regs[inst.rs1], regs[inst.rs2])
    <3>1. /\ reenter_pc' = Wrap(pc + inst.imm) /\ exit_reason' = "direct_branch"
          /\ continue_exec' = TRUE /\ LoopEnd(Wrap(pc + inst.imm), TRUE)
      BY <1>7, <2>2 DEF ExecBranch
    <3>2. pc' \in InstAddr /\ ctl' \in Ctl
      BY <2>1, <3>1, LoopEndType
    <3> QED
      BY <1>t, <2>1, <3>1, <3>2 DEF TypeOK, ExitReason
  <2>3. CASE ~BranchTaken(inst.op, regs[inst.rs1], regs[inst.rs2])
    <3>1. LoopEnd(pc, continue_exec) /\ UNCHANGED <<reenter_pc, exit_reason, continue_exec>>
      BY <1>7, <2>3 DEF ExecBranch
    <3>2. pc' \in InstAddr /\ ctl' \in Ctl
      BY <1>t, <3>1, LoopEndType
    <3> QED
      BY <1>t, <2>1, <3>1, <3>2 DEF TypeOK
  <2> QED
    BY <2>2, <2>3
<1>8. CASE ExecJal
  <2>1. regs' \in [Reg -> Word] /\ pc' \in InstAddr /\ ctl' \in Ctl /\ reenter_pc' \in InstAddr
    BY <1>8, <1>w, <1>a, <1>b, LoopEndType DEF ExecJal, Executes
  <2> QED
    BY <1>8, <1>t, <2>1 DEF ExecJal, TypeOK, ExitReason
<1>9. CASE ExecJalr
  <2>1. regs' \in [Reg -> Word] /\ pc' \in InstAddr /\ ctl' \in Ctl /\ reenter_pc' \in InstAddr
    BY <1>9, <1>t, <1>w, <1>a, LoopEndType, EvenSums DEF ExecJalr
  <2> QED
    BY <1>9, <1>t, <2>1 DEF ExecJalr, TypeOK, ExitReason
<1>10. CASE ExecEcall
  <2>1. regs' \in [Reg -> Word] /\ pc' \in InstAddr /\ ctl' \in Ctl /\ reenter_pc' \in InstAddr
    BY <1>10, <1>t, <1>k, LoopEndType, EvenSums DEF ExecEcall
  <2> QED
    BY <1>10, <1>t, <2>1 DEF ExecEcall, TypeOK, ExitReason
<1>11. CASE ExecCsr
  <2>1. regs' \in [Reg -> Word] /\ pc' \in InstAddr /\ ctl' \in Ctl
    BY <1>11, <1>t, <1>w, WordSums, LoopEndType DEF ExecCsr
  <2> QED
    BY <1>11, <1>t, <2>1 DEF ExecCsr, TypeOK
<1>12. CASE ExecCsrFatal
  BY <1>12, <1>t DEF ExecCsrFatal, TypeOK, Ctl, Stopped
<1>13. CASE ExecFence
  <2>1. regs' \in [Reg -> Word] /\ pc' \in InstAddr /\ ctl' \in Ctl
    BY <1>13, <1>t, <1>k, LoopEndType DEF ExecFence
  <2> QED
    BY <1>13, <1>t, <2>1 DEF ExecFence, TypeOK
<1>14. CASE Reenter
  BY <1>14, <1>t DEF Reenter, TypeOK, ExitReason, Ctl
<1>15. CASE StepReturns
  BY <1>15, <1>t DEF StepReturns, TypeOK, Ctl, Stopped
<1>16. CASE DoSyscall
  <2>1. PICK v \in SyscallRet(regs[a7]) : regs' = [regs EXCEPT ![a0] = v]
    BY <1>16 DEF DoSyscall
  <2>2. v \in Word /\ mem' \in Mem
    BY <1>16, <1>t, ArchAssumption DEF DoSyscall, TypedOperations
  <2>3. regs' \in [Reg -> Word]
    BY <1>t, <2>1, <2>2
  <2> QED
    BY <1>16, <1>t, <2>2, <2>3 DEF DoSyscall, TypeOK, ExitReason, Ctl
<1>17. CASE SyscallStops
  BY <1>17, <1>t DEF SyscallStops, TypeOK, Ctl, Stopped
<1>18. CASE Terminated \/ UNCHANGED vars
  BY <1>18, <1>t DEF Terminated, vars, TypeOK
<1> QED
  BY <1>1, <1>2, <1>3, <1>4, <1>5, <1>6, <1>7, <1>8, <1>9, <1>10, <1>11, <1>12,
     <1>13, <1>14, <1>15, <1>16, <1>17, <1>18, NextCases

\* For any operations that give words and cells and any decoder with even branch
\* immediates, the interpreter's state keeps its types: pc and reenter_pc stay even
\* words through branches, indirect jumps to any register value and the wrap-around of
\* 64 bits, and inst always holds a decoded instruction.
THEOREM InterpTypes ==
  ASSUME TypedOperations
  PROVE  Spec => []TypeOK
<1>1. TypeOK /\ BlockProtocol /\ [Next]_vars => TypeOK'
  BY TypeStep
<1>2. Init => TypeOK
  BY TypeInit
<1> QED
  BY <1>1, <1>2, ProtocolInvariant, PTL DEF Spec
=============================================================================
