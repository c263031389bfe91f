\* An object is closed with changes and opened again.
SPECIFICATION Spec
CONSTANTS
  Objects = {o1, o2}
  ID = ID
  Blocks = {3, 4, 5, 6}
  Blank = Blank
  CrashDirty = FALSE
  MaxRef = 1
  MaxChanges = 2
  MaxOpens = 1
  MaxFaults = 0
SYMMETRY Symmetry
INVARIANTS
  Durable
CHECK_DEADLOCK FALSE
