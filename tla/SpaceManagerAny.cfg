\* Both tree shapes, one failed tree operation, frees of free blocks.
CONSTANTS
  FirstBlk = 3
  BlkCnt = 6
  MaxCnt = 3
  LenMod = 16
  MaxFaults = 1
SPECIFICATION AnySpec
INVARIANTS TypeOK ExtentsDisjoint Conservation TotalExact Coalesced AllocAssertsHold
PROPERTIES ImplementsPool
CHECK_DEADLOCK FALSE
