\* Entries of two lengths: a removal replaces an entry by a longer successor.
SPECIFICATION Spec
CONSTANTS
  Keys = {1, 2, 3, 4, 5, 6, 7, 8, 9, 10}
  LensOf <- LensMixed
  RootCap = 38
  BlockCap = 41
  Blocks = {1, 2, 3, 4, 5, 6, 7, 8, 9, 10, 11, 12, 13, 14}
VIEW View
INVARIANTS
  HoldsVariantLengths
CHECK_DEADLOCK FALSE
