\* The super block cannot be written once.
SPECIFICATION Spec
CONSTANTS
  Objects = {o1, o2}
  ID = ID
  Blocks = {3, 4, 5, 6}
  Blank = Blank
  CrashDirty = FALSE
  MaxRef = 1
  MaxChanges = 2
  MaxOpens = 0
  MaxFaults = 1
SYMMETRY Symmetry
INVARIANTS
  DurableOnceCommitted
CHECK_DEADLOCK FALSE
