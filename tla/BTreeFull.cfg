\* An object that may get three blocks: a call finds none left.
SPECIFICATION Spec
CONSTANTS
  Keys = {1, 2, 3, 4, 5, 6}
  LensOf <- LensFalling
  RootCap = 18
  BlockCap = 20
  Blocks = {1, 2, 3}
VIEW View
INVARIANTS
  CleanIsOnDisk
CHECK_DEADLOCK FALSE
