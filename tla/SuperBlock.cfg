\* Processes killed at every point, up to two calls that fail; the numbers wrap.
SPECIFICATION Spec
CONSTANTS
  Cnt = 4
  SeqMod = 16
  MaxVersion = 20
  MaxFaults = 2
INVARIANTS
  Healed
PROPERTIES
  ImplementsCell
CHECK_DEADLOCK FALSE
