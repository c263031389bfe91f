\* Two threads that refill bsm at the same time.
SPECIFICATION Spec
CONSTANTS
  Threads = {t1, t2}
  None = None
  Total = 13
  MAX_BLK_NUM = 4
  MIN_BLK_NUM = 2
  LenMod = 16
  MaxOps = 4
  MaxSessions = 1
  MaxSplits = 2
INVARIANTS
  RefillAsserts
CHECK_DEADLOCK FALSE
