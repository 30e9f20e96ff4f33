SPECIFICATION Spec
CONSTANTS
  AddrSpace = 65536
  IntSpace = 16384
  PageSize = 4
  GuestOffset = 8
  HostLimit = 32
  Data <- MCData
  MaxFile = 2
  MaxFd = 4
  Calls <- MCCalls
  MaxCalls = 4
  ImageStart = 4
  ImageEnd = 8
  StackSize = 4
  ImageCells <- MCImageCells
  StdFiles <- MCStdFiles
INVARIANTS
  TypeOK
  TablesInBounds
PROPERTIES
  RefinesFiles
  StdioStaysOpen
  EscapesOnlyByWrap
