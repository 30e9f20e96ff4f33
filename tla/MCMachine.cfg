SPECIFICATION MachineSpec
CONSTANTS
  AddrSpace = 65536
  XLen = 16
  WLen = 8
  Entry <- MCEntry
  Reg <- MCReg
  zero = 0
  a0 = 10
  a7 = 17
  Addr <- MCAddr
  Cell <- MCCell
  Fields <- decoded
  AluOp <- computed
  AluTraps <- traps
  BranchTaken <- taken
  LoadOp <- loaded
  StoreOp <- stored
  Syscalls = {}
  SysExit = 93
  SyscallRet <- NoRet
  SyscallMem <- NoMem
  Programs <- MCPrograms
INVARIANT Computes
PROPERTY Exits
