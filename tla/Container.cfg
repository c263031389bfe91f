\* Crashes when everything is written, a failed write, a container that gets full.
SPECIFICATION Spec
CONSTANTS
  Objects = {o1, o2}
  ID = ID
  Blocks = {3, 4, 5}
  Blank = Blank
  CrashDirty = FALSE
  MaxRef = 2
  MaxChanges = 3
  MaxOpens = 2
  MaxFaults = 1
SYMMETRY Symmetry
INVARIANTS
  TypeOK
  DurableUnlessReopened
  InodesOwned
  FreeUncached
CHECK_DEADLOCK FALSE
