\* One thread, one object: what close and list with an object leave locked.
SPECIFICATION Spec
CONSTANTS
  Objs = {o1}
  MaxThreads = 1
  MaxKept = 1
  CntMod = 4
PROPERTY CommandsAlwaysEnd
CHECK_DEADLOCK FALSE
