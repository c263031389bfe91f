\* Crashes at any time; no object is opened again.
SPECIFICATION Spec
CONSTANTS
  Objects = {o1, o2}
  ID = ID
  Blocks = {3, 4, 5, 6}
  Blank = Blank
  CrashDirty = TRUE
  MaxRef = 1
  MaxChanges = 4
  MaxOpens = 0
  MaxFaults = 0
SYMMETRY Symmetry
INVARIANTS
  DurableUnlessReopened
CHECK_DEADLOCK FALSE
