\* A failed write leaves a slot blank, a later one is cut off.
SPECIFICATION Spec
CONSTANTS
  Cnt = 4
  SeqMod = 32
  MaxVersion = 12
  MaxFaults = 1
INVARIANTS
  Readable
CHECK_DEADLOCK FALSE
