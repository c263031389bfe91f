\* Entries of the largest size: two in the root, three in a block.
SPECIFICATION Spec
CONSTANTS
  Keys = {1, 2, 3, 4, 5, 6, 7, 8, 9}
  LensOf <- LensFalling
  RootCap = 18
  BlockCap = 20
  Blocks = {1, 2, 3, 4, 5, 6, 7, 8, 9, 10, 11, 12, 13, 14}
VIEW View
INVARIANTS
  TypeOK Balanced BlocksOwnedOnce WalksInOrder SearchExact CleanIsOnDisk
PROPERTIES
  ImplementsMap
CHECK_DEADLOCK FALSE
