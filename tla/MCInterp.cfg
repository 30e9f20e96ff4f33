SPECIFICATION Spec
CONSTANTS
  AddrSpace = 12
  Reg <- MCReg
  zero = 0
  a0 = 1
  a7 = 2
  Addr <- MCAddr
  Cell <- MCCell
  Fields <- MCFields
  AluOp <- MCAluOp
  AluTraps <- MCAluTraps
  BranchTaken <- MCBranchTaken
  LoadOp <- MCLoadOp
  StoreOp <- MCStoreOp
  Syscalls = {0, 2}
  SysExit = 3
  SyscallRet <- MCSyscallRet
  SyscallMem <- MCSyscallMem
  Programs <- MCPrograms
INVARIANTS
  TypeOK
  AssertsHold
  BlockProtocol
PROPERTIES
  RefinesISA
  ExecutesOn
