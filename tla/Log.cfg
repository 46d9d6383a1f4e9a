CONSTANTS
  t1 = t1
  t2 = t2
  Threads <- MCThreads
  NoThread = none
  Levels = {0, 1}
  MAX_CALLBACKS = 2
  MaxEvents = 2
  MaxTime = 1
SPECIFICATION Spec
CHECK_DEADLOCK FALSE
INVARIANTS SameOrder SameTime Delivered
PROPERTY CallsReturn
