SPECIFICATION Spec
CONSTANT
  Words <- MCWords
INVARIANTS
  TypeOK
  ImmediatesAsDrawn
  ShortMeansLong
  EveryBitCounts
  NothingStale
  OwnHandler
