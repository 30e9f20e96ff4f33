SPECIFICATION Spec
CONSTANTS
  F = {f0, f1}
  X = {x1}
  DSlots = {d0}
  WSlots = {w0}
  Half <- MCHalf
  Zero = 0
  Ones = 1
  NaN = 1
  sop <- MCsop
  dop <- MCdop
  sint <- MCsint
  dint <- MCdint
  ints <- MCints
  intd <- MCintd
  widen <- MCwiden
  narrow <- MCnarrow
  fill <- MCfill
PROPERTY RefinesBoxed
