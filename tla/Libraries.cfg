\* The five parts of Libraries with the bounds of each.
SPECIFICATION Spec
CONSTANTS
  AvlKeys = {1, 2, 3, 4, 5, 6, 7, 8, 9, 10, 11}
  UpdateMax = 3
  Base = 4
  Width = 2
  MaxAddr = 5
  MaxExtent = 2
  Items = {1, 2, 3, 4}
  Limit = 3
  Buckets = 2
  FileProcs = {p1, p2}
  FileOffs = {0, 1}
  FileVals = {1, 2}
  MaxFileFaults = 2
  Writers = {w1, w2}
  MaxFileLines = 1
  MaxLines = 5
  Seconds = 2
  MaxLogFaults = 1
INVARIANTS
  AvlBalanced AvlWalksAll AvlNearestExact AvlDestroysOnce
  CollateOrders CollateMeans EncodingsExact
  ListWalksAll LinesKept LogBounded
PROPERTIES
  ImplementsContainer ImplementsFile
CHECK_DEADLOCK FALSE
