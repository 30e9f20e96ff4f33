SPECIFICATION Spec
CONSTANTS
  AddrSpace = 256
  XLen = 8
  WLen = 4
  Values <- MCValues
INVARIANT
  DivisionByZeroDefined
