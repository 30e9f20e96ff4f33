SPECIFICATION Spec
CONSTANTS
  AddrSpace = 256
  PageSize = 4
  GuestOffset = 8
  HostLimit = 60
  StackSize = 14
  PtrSize = 2
  Images <- BssImage
  ArgVectors <- TwoArgs
  BrkArgs <- BrkUpAndDown
INVARIANT
  BssZero
