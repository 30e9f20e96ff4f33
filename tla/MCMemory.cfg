SPECIFICATION Spec
CONSTANTS
  AddrSpace = 65536
  ByteSize = 4
  GuestOffset = 16
  HostBytes <- MCHostBytes
  Bases <- MCBases
  Imms <- MCImms
  Values <- MCValues
  MaxStores = 2
INVARIANTS
  LoadsSeeStores
