SPECIFICATION Spec
CONSTANTS
  AddrSpace = 256
  PageSize = 4
  GuestOffset = 8
  HostLimit = 60
  StackSize = 14
  PtrSize = 2
  Images <- AllImages
  ArgVectors <- ArgChoices
  BrkArgs <- BrkBelowHalf
INVARIANTS
  TypeOK
  BreakWithinHost
  HeapBacked
  Accounting
  SegmentsLoaded
  BssPagesZero
  ArgsIntact
PROPERTIES
  DisplacedOnlyAfterTrim
  StartupEnds
