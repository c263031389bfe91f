\* Two threads; the container gets full, is closed and opened again.
SPECIFICATION Spec
CONSTANTS
  Threads = {t1, t2}
  None = None
  Total = 9
  MAX_BLK_NUM = 3
  MIN_BLK_NUM = 1
  LenMod = 16
  MaxOps = 3
  MaxSessions = 1
  MaxSplits = 2
INVARIANTS
  TypeOK
  OneOwner
  NothingLost
  ReserveEnough
PROPERTIES
  RequestsEnd
CHECK_DEADLOCK FALSE
