\* Three threads of the perf command, two objects, one command at a time.
SPECIFICATION Spec
CONSTANTS
  Objs = {o1, o2}
  MaxThreads = 3
  MaxKept = 2
  CntMod = 8
INVARIANTS RefsExact ThreadsOver
PROPERTY CommandEnds
CHECK_DEADLOCK FALSE
