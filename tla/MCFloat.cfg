SPECIFICATION FloatSpec
CONSTANTS
  AddrSpace = 262144
  XLen = 18
  WLen = 9
  ExpBits <- MCExpBits
  FracBits <- MCFracBits
  Triples <- MCTriples
  Ints <- MCInts
  Stale <- MCStale
INVARIANTS
  ClassAgrees
  SignInjection
  ConversionsNearest
  MinMaxOrdered
  MulAddSigned
  FusedWhenExact
